---- MODULE Spec2Model ----
(***************************************************************************)
(* A model of capirca's Palo Alto firewall generator                       *)
(* (capirca/lib/paloaltofw.py): the translation pass                       *)
(* PaloAltoFW._TranslatePolicy, the process-wide Service registry, the     *)
(* Rule option map built by Rule.ModifyOptions, the address book and the   *)
(* document rendered by PaloAltoFW.__str__.                                *)
(*                                                                         *)
(* One translation is: NewTranslation (PaloAltoFW.__init__), then for each *)
(* header BeginHeader, ProcessTerm for each of its terms, EndHeader (the   *)
(* rules of the header are built), and Finish when the policy has no more  *)
(* headers.  An exception ends the translation in pc = "error".            *)
(***************************************************************************)
EXTENDS Integers, Sequences, FiniteSets, TLC

VARIABLES
  service_map,       \* Service.service_map: <<[ports, protocol, name]>>, in insertion order
  pc,                \* "idle" | "headers" | "terms" | "done" | "error"
  error,             \* the exception raised: [type, term, value]
  from_zone,         \* self.from_zone
  to_zone,           \* self.to_zone
  filter_type,       \* filter_type of the header being translated
  filter_options,    \* filter_options of the header being translated
  header_terms,      \* the terms of the header that the loop has consumed, in order
  term_dup_check,    \* term_dup_check of the header being translated
  new_terms,         \* new_terms of the header being translated
  addressbook,       \* self.addressbook: <<[zone, groups: <<[token, entries: <<[address, name]>>]>>]>>
  applications,      \* self.applications
  application_refs,  \* self.application_refs: name -> entry
  pafw_policies,     \* self.pafw_policies: <<[filter_options, ruleset: <<[name, options]>>]>>
  n_translations,    \* how many PaloAltoFW objects this process has constructed
  requests,          \* history: the (ports, protocol) lookups of Rule.ModifyOptions so far
  last               \* the input consumed by the last step: [op, term, outcome]

vars == <<service_map, pc, error, from_zone, to_zone, filter_type, filter_options,
          header_terms, term_dup_check, new_terms, addressbook, applications,
          application_refs, pafw_policies, n_translations, requests, last>>

instance_vars == <<from_zone, to_zone, filter_type, filter_options, header_terms,
                   term_dup_check, new_terms, addressbook, applications,
                   application_refs, pafw_policies>>

-----------------------------------------------------------------------------
(* Sequences as Python lists.                                              *)

Range(s) == {s[i] : i \in 1..Len(s)}

Contains(s, x) == \E i \in 1..Len(s) : s[i] = x

SeqsUpTo(S, n) == UNION {[1..k -> S] : k \in 0..n}

-----------------------------------------------------------------------------
(* Program constants.                                                      *)

TERM_MAX_LENGTH == 31

MAX_SERVICE_NAME_LENGTH == 63

SUPPORTED_AF == {"inet", "inet6", "mixed"}

SUPPORTED_PROTO_NAMES == {"tcp", "udp", "icmp", "icmpv6", "sctp", "igmp"}

\* A variant of Term.ACTIONS in which reject is rendered as deny.
Term_ACTIONS_RejectAsDeny ==
  { <<"accept", "allow">>, <<"deny", "deny">>, <<"reject", "deny">>,
    <<"reject-with-tcp-rst", "reset-client">> }

\* Term.ACTIONS, as the set of its items.
Term_ACTIONS ==
  { <<"accept", "allow">>, <<"deny", "deny">>, <<"reject", "reset-client">>,
    <<"reject-with-tcp-rst", "reset-client">> }

\* datetime.date.today(), in days.
current_date == 10

-----------------------------------------------------------------------------
(* Network objects (nacaddr.IPv4 / nacaddr.IPv6).  An address object is    *)
(* [ip, parent_token]; str(address) is its ip.  A network is the range of  *)
(* addresses it covers (for IPv6, of the leading 32 bits of them).         *)

NetVersion(ip) ==
  CASE ip = "10.0.0.0/8" -> 4
    [] ip = "10.1.0.0/16" -> 4
    [] ip = "11.0.0.0/24" -> 4
    [] ip = "2001::/16" -> 6
    [] ip = "2001:db8::/32" -> 6

NetFirst(ip) ==
  CASE ip = "10.0.0.0/8" -> 167772160
    [] ip = "10.1.0.0/16" -> 167837696
    [] ip = "11.0.0.0/24" -> 184549376
    [] ip = "2001::/16" -> 536936448
    [] ip = "2001:db8::/32" -> 536939960

NetLast(ip) ==
  CASE ip = "10.0.0.0/8" -> 184549375
    [] ip = "10.1.0.0/16" -> 167903231
    [] ip = "11.0.0.0/24" -> 184549631
    [] ip = "2001::/16" -> 537001983
    [] ip = "2001:db8::/32" -> 536939960

version(address) == NetVersion(address.ip)

\* a.supernet_of(b): b lies within a, and both are of one IP version.
supernet_of(a, b) ==
  /\ version(a) = version(b)
  /\ NetFirst(a.ip) <= NetFirst(b.ip)
  /\ NetLast(b.ip) <= NetLast(a.ip)

\* nacaddr.RemoveAddressFromList(superset, exclude): the addresses of superset
\* that exclude does not cover.  (An address that strictly contains exclude is
\* split by the library; the excluded networks of the inputs drawn here never
\* lie strictly inside an address.)
RemoveAddressFromList(superset, exclude) ==
  SelectSeq(superset, LAMBDA a : ~supernet_of(exclude, a))

RECURSIVE RemoveAll(_, _)
RemoveAll(addresses, excludes) ==
  IF excludes = <<>> THEN addresses
  ELSE RemoveAll(RemoveAddressFromList(addresses, Head(excludes)), Tail(excludes))

-----------------------------------------------------------------------------
(* policy.Term.ICMP_TYPE: the ICMP type names and codes of each IP version.*)

ICMP_TYPE(v) ==
  IF v = 4
  THEN { <<"echo-reply", 0>>, <<"echo-request", 8>>, <<"timestamp-request", 13>> }
  ELSE { <<"echo-request", 128>>, <<"echo-reply", 129>>, <<"neighbor-solicit", 135>> }

IcmpTypeNames(v) == {p[1] : p \in ICMP_TYPE(v)}

IcmpTypeCode(v, name) == (CHOOSE p \in ICMP_TYPE(v) : p[1] = name)[2]

-----------------------------------------------------------------------------
(* The term the policy layer hands over (policy.Term), with the fields the *)
(* generator reads.                                                        *)

DefaultTerm ==
  [ name |-> "t1",
    comment |-> <<>>,
    stateless_reply |-> FALSE,
    option |-> {},
    expiration |-> 0,                   \* 0: no expiration date
    source_address |-> <<>>,
    destination_address |-> <<>>,
    source_address_exclude |-> <<>>,
    destination_address_exclude |-> <<>>,
    protocol |-> <<>>,
    destination_port |-> <<>>,          \* <<low, high>> pairs
    icmp_type |-> <<>>,
    action |-> <<"accept">>,
    logging |-> <<>>,
    pan_application |-> <<>> ]

NoError == [type |-> "", term |-> "", value |-> ""]

Raise(type, term, value) == [type |-> type, term |-> term, value |-> value]

-----------------------------------------------------------------------------
(* _TranslatePolicy, lines 436-479: the traffic flows of a term.           *)

\* afc[v]["src"] / afc[v]["dst"]: how many addresses of the list are of version v.
afc(v, addresses) == Cardinality({i \in 1..Len(addresses) : version(addresses[i]) = v})

\* A variant of FlowsOfVersion that does not add the flow ipv-only to
\* ipv-src-only.
FlowsOfVersionSrcOnly(v, source_address, destination_address) ==
  LET src_any == source_address = <<>>
      dst_any == destination_address = <<>>
      src == afc(v, source_address)
      dst == afc(v, destination_address)
      ipv == "ip" \o ToString(v)
  IN  IF src_any /\ dst_any THEN {ipv \o "-" \o ipv}
      ELSE IF (src = 0 /\ ~src_any) /\ (dst = 0 /\ ~dst_any) THEN {}
      ELSE IF (src > 0 \/ src_any) /\ (dst > 0 \/ dst_any) THEN {ipv \o "-" \o ipv}
      ELSE IF (src > 0 \/ src_any) /\ dst = 0 THEN {ipv \o "-src-only"}
      ELSE IF src = 0 /\ (dst > 0 \/ dst_any) THEN {ipv \o "-dst-only", ipv \o "-only"}
      ELSE {}

FlowsOfVersion(v, source_address, destination_address) ==
  LET src_any == source_address = <<>>
      dst_any == destination_address = <<>>
      src == afc(v, source_address)
      dst == afc(v, destination_address)
      ipv == "ip" \o ToString(v)
  IN  IF src_any /\ dst_any THEN {ipv \o "-" \o ipv}
      ELSE IF (src = 0 /\ ~src_any) /\ (dst = 0 /\ ~dst_any) THEN {}
      ELSE IF (src > 0 \/ src_any) /\ (dst > 0 \/ dst_any) THEN {ipv \o "-" \o ipv}
      ELSE IF (src > 0 \/ src_any) /\ dst = 0 THEN {ipv \o "-src-only", ipv \o "-only"}
      ELSE IF src = 0 /\ (dst > 0 \/ dst_any) THEN {ipv \o "-dst-only", ipv \o "-only"}
      ELSE {}

Flows(source_address, destination_address) ==
  FlowsOfVersion(4, source_address, destination_address)
    \cup FlowsOfVersion(6, source_address, destination_address)

\* A variant of AddressFamily in which a mixed filter never excludes a family.
AddressFamilyMixedKeepsAll(ftype, protocol, flows) ==
  LET Drop == [drop |-> TRUE, exclude |-> {}]
      Keep(ex) == [drop |-> FALSE, exclude |-> ex]
  IN  IF ftype = "inet"
      THEN IF Contains(protocol, "icmpv6") \/ "ip4-ip4" \notin flows
           THEN Drop ELSE Keep({6})
      ELSE IF ftype = "inet6"
      THEN IF Contains(protocol, "icmp") \/ "ip6-ip6" \notin flows
           THEN Drop ELSE Keep({4})
      ELSE IF "ip4-ip4" \notin flows /\ "ip6-ip6" \notin flows THEN Drop
      ELSE Keep({})

\* A variant of AddressFamily in which an inet filter keeps icmpv6 terms.
AddressFamilyInetKeepsIcmpv6(ftype, protocol, flows) ==
  LET Drop == [drop |-> TRUE, exclude |-> {}]
      Keep(ex) == [drop |-> FALSE, exclude |-> ex]
  IN  IF ftype = "inet"
      THEN IF "ip4-ip4" \notin flows THEN Drop ELSE Keep({6})
      ELSE IF ftype = "inet6"
      THEN IF Contains(protocol, "icmp") \/ "ip6-ip6" \notin flows
           THEN Drop ELSE Keep({4})
      ELSE IF "ip4-ip4" \in flows /\ "ip6-ip6" \notin flows THEN Keep({6})
      ELSE IF "ip6-ip6" \in flows /\ "ip4-ip4" \notin flows THEN Keep({4})
      ELSE IF "ip4-ip4" \in flows /\ "ip6-ip6" \in flows THEN Keep({})
      ELSE Drop

(* _TranslatePolicy, lines 481-535: whether the filter type drops the term *)
(* (continue), and otherwise exclude_address_family.                       *)
AddressFamily(ftype, protocol, flows) ==
  LET Drop == [drop |-> TRUE, exclude |-> {}]
      Keep(ex) == [drop |-> FALSE, exclude |-> ex]
  IN  IF ftype = "inet"
      THEN IF Contains(protocol, "icmpv6") THEN Drop
           ELSE IF "ip4-ip4" \notin flows THEN Drop
           ELSE Keep({6})
      ELSE IF ftype = "inet6"
      THEN IF Contains(protocol, "icmp") THEN Drop
           ELSE IF "ip6-ip6" \notin flows THEN Drop
           ELSE Keep({4})
      ELSE IF "ip4-ip4" \in flows /\ "ip6-ip6" \notin flows THEN Keep({6})
      ELSE IF "ip6-ip6" \in flows /\ "ip4-ip4" \notin flows THEN Keep({4})
      ELSE IF "ip4-ip4" \in flows /\ "ip6-ip6" \in flows THEN Keep({})
      ELSE IF "ip4-only" \in flows /\ "ip6-only" \in flows THEN Drop
      ELSE IF "ip4-ip4" \in flows THEN Keep({6}) ELSE Keep({4})

-----------------------------------------------------------------------------
(* The address book.                                                       *)

\* The position of the zone in the book, and of the token in the groups of
\* a zone; 0 when absent.
ZoneIndex(book, zone) ==
  IF \E i \in 1..Len(book) : book[i].zone = zone
  THEN CHOOSE i \in 1..Len(book) : book[i].zone = zone
  ELSE 0

TokenIndex(groups, token) ==
  IF \E i \in 1..Len(groups) : groups[i].token = token
  THEN CHOOSE i \in 1..Len(groups) : groups[i].token = token
  ELSE 0

\* A variant of AlreadyRegistered that compares the most recent entry only.
AlreadyRegisteredLastOnly(entries, address) ==
  entries # <<>> /\ address.ip = entries[Len(entries)].address.ip

\* Lines 650-652: an entry of the bucket has the string form of address.
AlreadyRegistered(entries, address) ==
  \E i \in 1..Len(entries) : address.ip = entries[i].address.ip

\* PaloAltoFW._BuildAddressBook(zone, address).
BuildAddressBook(book, zone, address) ==
  LET book1 == IF ZoneIndex(book, zone) = 0
               THEN Append(book, [zone |-> zone, groups |-> <<>>]) ELSE book
      zi == ZoneIndex(book1, zone)
      groups == book1[zi].groups
      groups1 == IF TokenIndex(groups, address.parent_token) = 0
                 THEN Append(groups, [token |-> address.parent_token, entries |-> <<>>])
                 ELSE groups
      gi == TokenIndex(groups1, address.parent_token)
      entries == groups1[gi].entries
      counter == Len(entries)
      name == address.parent_token \o "_" \o ToString(counter)
      entries1 == IF AlreadyRegistered(entries, address)
                  THEN entries
                  ELSE Append(entries, [address |-> address, name |-> name])
  IN  [book1 EXCEPT ![zi].groups = [groups1 EXCEPT ![gi].entries = entries1]]

\* _TranslatePolicy, lines 538-545: one of the two loops over the term's addresses.
RECURSIVE BuildAddressBookOf(_, _, _, _)
BuildAddressBookOf(book, zone, addresses, exclude_address_family) ==
  IF addresses = <<>> THEN book
  ELSE BuildAddressBookOf(
         IF version(Head(addresses)) \in exclude_address_family
         THEN book ELSE BuildAddressBook(book, zone, Head(addresses)),
         zone, Tail(addresses), exclude_address_family)

-----------------------------------------------------------------------------
(* _TranslatePolicy, lines 554-614: the applications of an ICMP term.  The *)
(* accumulator is [error, applications, application_refs, pan_application].*)

app_entry(icmp_app_name, icmp_type_keyword, term_icmp_type, risk_level) ==
  [ category |-> "networking",
    subcategory |-> "ip-protocol",
    technology |-> "network-protocol",
    description |-> icmp_app_name,
    default |-> <<icmp_type_keyword, ToString(term_icmp_type)>>,
    risk |-> ToString(risk_level) ]

\* A variant of IcmpTypes that passes over an unknown type name instead of
\* raising.
RECURSIVE IcmpTypesSkipUnknown(_, _, _, _)
IcmpTypesSkipUnknown(acc, term_name, icmp_version, icmp_type) ==
  IF icmp_type = <<>> THEN acc
  ELSE
    LET name == Head(icmp_type)
        v == IF icmp_version = "icmp" THEN 4 ELSE 6
        icmp_app_name == (IF icmp_version = "icmp" THEN "icmp-" ELSE "icmp6-") \o name
    IN  IF name \notin IcmpTypeNames(v) \/ icmp_app_name \in DOMAIN acc.application_refs
        THEN IcmpTypesSkipUnknown(acc, term_name, icmp_version, Tail(icmp_type))
        ELSE IcmpTypesSkipUnknown(
               [acc EXCEPT
                  !.application_refs = @ @@ (icmp_app_name :>
                     app_entry(icmp_app_name,
                               IF icmp_version = "icmp" THEN "ident-by-icmp-type"
                               ELSE "ident-by-icmp6-type",
                               IcmpTypeCode(v, name),
                               IF icmp_version = "icmp" THEN 4 ELSE 2)),
                  !.applications = Append(@, icmp_app_name),
                  !.pan_application = IF Contains(@, icmp_app_name)
                                      THEN @ ELSE Append(@, icmp_app_name)],
               term_name, icmp_version, Tail(icmp_type))

\* Lines 583-614: the loop over term.icmp_type.
RECURSIVE IcmpTypes(_, _, _, _)
IcmpTypes(acc, term_name, icmp_version, icmp_type) ==
  IF icmp_type = <<>> \/ acc.error # NoError THEN acc
  ELSE
    LET term_icmp_type_name == Head(icmp_type)
        v == IF icmp_version = "icmp" THEN 4 ELSE 6
        icmp_app_name == (IF icmp_version = "icmp" THEN "icmp-" ELSE "icmp6-")
                           \o term_icmp_type_name
        icmp_type_keyword == IF icmp_version = "icmp"
                             THEN "ident-by-icmp-type" ELSE "ident-by-icmp6-type"
        risk_level == IF icmp_version = "icmp" THEN 4 ELSE 2
    IN  IF term_icmp_type_name \notin IcmpTypeNames(v)
        THEN [acc EXCEPT !.error =
                Raise("PaloAltoFWBadIcmpTypeError", term_name, term_icmp_type_name)]
        ELSE IF icmp_app_name \in DOMAIN acc.application_refs
        THEN \* the custom icmp application already exists: continue
             IcmpTypes(acc, term_name, icmp_version, Tail(icmp_type))
        ELSE IcmpTypes(
               [acc EXCEPT
                  !.application_refs = @ @@ (icmp_app_name :>
                     app_entry(icmp_app_name, icmp_type_keyword,
                               IcmpTypeCode(v, term_icmp_type_name), risk_level)),
                  !.applications = Append(@, icmp_app_name),
                  !.pan_application = IF Contains(@, icmp_app_name)
                                      THEN @ ELSE Append(@, icmp_app_name)],
               term_name, icmp_version, Tail(icmp_type))

\* Lines 555-582: one pass of the loop over ["icmp", "icmpv6"].
IcmpVersion(acc, term, ftype, flows, icmp_version) ==
  IF acc.error # NoError THEN acc
  ELSE IF ~Contains(term.protocol, "icmp") /\ ~Contains(term.protocol, "icmpv6") THEN acc
  ELSE IF icmp_version = "icmp" /\ "ip4-ip4" \notin flows THEN acc
  ELSE IF icmp_version = "icmpv6" /\ "ip6-ip6" \notin flows THEN acc
  ELSE IF icmp_version = "icmp"
  THEN IF ftype = "inet6" THEN acc
       ELSE IF term.icmp_type = <<>>
       THEN [acc EXCEPT !.pan_application = Append(@, "icmp")]
       ELSE IcmpTypes(acc, term.name, icmp_version, term.icmp_type)
  ELSE IF ftype = "inet" THEN acc
       ELSE IF term.icmp_type = <<>>
       THEN [acc EXCEPT !.pan_application = Append(@, "ipv6-icmp")]
       ELSE IcmpTypes(acc, term.name, icmp_version, term.icmp_type)

IcmpApplications(acc, term, ftype, flows) ==
  IcmpVersion(IcmpVersion(acc, term, ftype, flows, "icmp"), term, ftype, flows, "icmpv6")

-----------------------------------------------------------------------------
(* _TranslatePolicy, lines 391-627: the body of the loop over the terms of *)
(* a header, for one term.  The result is what the pass leaves behind:     *)
(* outcome "dropped" (continue), "raised" (an exception) or "appended".    *)

\* A variant of Skipped that lets tcp-established terms through.
SkippedButTcpEstablished(term) ==
  term.stateless_reply \/ "established" \in term.option

Skipped(term) ==
  \/ term.stateless_reply
  \/ "established" \in term.option
  \/ "tcp-established" \in term.option

\* A variant of Expired in which a term that expires today is not expired.
ExpiredBeforeToday(term) == term.expiration # 0 /\ term.expiration < current_date

Expired(term) == term.expiration # 0 /\ term.expiration <= current_date

\* The first protocol of the term that is not supported, "" when all are.
RECURSIVE UnsupportedProtocol(_)
UnsupportedProtocol(protocol) ==
  IF protocol = <<>> THEN ""
  ELSE IF Head(protocol) \in SUPPORTED_PROTO_NAMES THEN UnsupportedProtocol(Tail(protocol))
  ELSE Head(protocol)

\* A variant of IcmpTypeWithoutProtocol that fires only when the term names no
\* protocol at all.
IcmpTypeWithoutAnyProtocol(term) ==
  term.icmp_type # <<>> /\ term.protocol = <<>>

\* Lines 548-549: icmp_type is used and the protocol is neither ICMP nor ICMPv6.
IcmpTypeWithoutProtocol(term) ==
  /\ term.icmp_type # <<>>
  /\ ~Contains(term.protocol, "icmp")
  /\ ~Contains(term.protocol, "icmpv6")

\* A variant of IsDuplicateTerm that compares with the names of the terms
\* kept so far (new_terms) instead of term_dup_check.
IsDuplicateOfKeptTerm(name, dup_check, terms) ==
  \E i \in 1..Len(terms) : terms[i].name = name

\* Line 411: the name is that of an earlier term of the header.
IsDuplicateTerm(name, dup_check, terms) == name \in dup_check

TranslateTerm(t) ==
  LET Same(outcome) ==
        [ outcome |-> outcome, error |-> NoError, term_dup_check |-> term_dup_check,
          addressbook |-> addressbook, applications |-> applications,
          application_refs |-> application_refs, new_terms |-> new_terms ]
      dup1 == term_dup_check \cup {t.name}
      source_address == RemoveAll(t.source_address, t.source_address_exclude)
      destination_address == RemoveAll(t.destination_address, t.destination_address_exclude)
      term == [t EXCEPT !.source_address = source_address,
                        !.destination_address = destination_address]
      flows == Flows(source_address, destination_address)
      af == AddressFamily(filter_type, t.protocol, flows)
      book1 == BuildAddressBookOf(addressbook, from_zone, source_address, af.exclude)
      book2 == BuildAddressBookOf(book1, to_zone, destination_address, af.exclude)
      icmp == IcmpApplications(
                [ error |-> NoError, applications |-> applications,
                  application_refs |-> application_refs,
                  pan_application |-> t.pan_application ],
                term, filter_type, flows)
      Built(outcome) == [Same(outcome) EXCEPT !.term_dup_check = dup1, !.addressbook = book2]
      Icmp(outcome) == [Built(outcome) EXCEPT !.applications = icmp.applications,
                                               !.application_refs = icmp.application_refs]
  IN  IF Skipped(t) THEN Same("dropped")
      \* self.FixTermLength(term.name): aclgenerator raises on a name that is too long
      ELSE IF Len(t.name) > TERM_MAX_LENGTH
      THEN [Same("raised") EXCEPT !.error = Raise("TermNameTooLongError", t.name, t.name)]
      ELSE IF IsDuplicateTerm(t.name, term_dup_check, new_terms)
      THEN [Same("raised") EXCEPT
              !.error = Raise("PaloAltoFWDuplicateTermError", t.name, t.name)]
      ELSE IF Expired(t) THEN [Same("dropped") EXCEPT !.term_dup_check = dup1]
      ELSE IF af.drop THEN [Same("dropped") EXCEPT !.term_dup_check = dup1]
      ELSE IF IcmpTypeWithoutProtocol(t)
      THEN [Built("raised") EXCEPT
              !.error = Raise("UnsupportedFilterError", t.name, "icmp_type")]
      ELSE IF icmp.error # NoError THEN [Icmp("raised") EXCEPT !.error = icmp.error]
      ELSE IF UnsupportedProtocol(t.protocol) # ""
      THEN [Icmp("raised") EXCEPT
              !.error = Raise("PaloAltoFWUnsupportedProtocolError", t.name,
                              UnsupportedProtocol(t.protocol))]
      ELSE [Icmp("appended") EXCEPT
              !.new_terms = Append(new_terms,
                                   [term EXCEPT !.pan_application = icmp.pan_application])]

-----------------------------------------------------------------------------
(* The Service registry and Rule.                                          *)

\* str(tup[0]) + "-" + str(tup[1]), or str(tup[0]): lines 239-242.
PortString(tup) ==
  IF Len(tup) > 1 /\ tup[1] # tup[2]
  THEN ToString(tup[1]) \o "-" \o ToString(tup[2])
  ELSE ToString(tup[1])

\* ports = tuple(ports): lines 237-243.
PortsOf(destination_port) == [i \in 1..Len(destination_port) |-> PortString(destination_port[i])]

RECURSIVE Join(_, _)
Join(strings, sep) ==
  IF strings = <<>> THEN ""
  ELSE IF Len(strings) = 1 THEN strings[1]
  ELSE strings[1] \o sep \o Join(Tail(strings), sep)

InServiceMap(smap, ports, protocol) ==
  \E i \in 1..Len(smap) : smap[i].ports = ports /\ smap[i].protocol = protocol

ServiceName(smap, ports, protocol) ==
  smap[CHOOSE i \in 1..Len(smap) : smap[i].ports = ports /\ smap[i].protocol = protocol].name

\* A variant of Service that does not compare the new name with the names of
\* the registry.
ServiceUncheckedName(smap, ports, service_name, protocol) ==
  LET final_service_name == "service-" \o service_name \o "-" \o protocol
  IN  IF InServiceMap(smap, ports, protocol)
      THEN [ error |-> Raise("PaloAltoFWDuplicateServiceError", service_name,
                             Join(ports, ",")),
             service_map |-> smap ]
      ELSE IF Len(final_service_name) > MAX_SERVICE_NAME_LENGTH
      THEN [ error |-> Raise("PaloAltoFWNameTooLongError", service_name,
                             final_service_name),
             service_map |-> smap ]
      ELSE [ error |-> NoError,
             service_map |-> Append(smap, [ports |-> ports, protocol |-> protocol,
                                           name |-> final_service_name]) ]

\* Service.__init__(ports, service_name, protocol): [error, service_map].
Service(smap, ports, service_name, protocol) ==
  LET final_service_name == "service-" \o service_name \o "-" \o protocol
  IN  IF InServiceMap(smap, ports, protocol)
      THEN [ error |-> Raise("PaloAltoFWDuplicateServiceError", service_name,
                             Join(ports, ",")),
             service_map |-> smap ]
      ELSE IF \E i \in 1..Len(smap) : smap[i].name = final_service_name
      THEN [ error |-> Raise("PaloAltoFWDuplicateServiceError", service_name,
                             final_service_name),
             service_map |-> smap ]
      ELSE IF Len(final_service_name) > MAX_SERVICE_NAME_LENGTH
      THEN [ error |-> Raise("PaloAltoFWNameTooLongError", service_name,
                             final_service_name),
             service_map |-> smap ]
      ELSE [ error |-> NoError,
             service_map |-> Append(smap, [ports |-> ports, protocol |-> protocol,
                                           name |-> final_service_name]) ]

\* A variant of LoggingOptions in which disable is one more directive of the
\* list: it neither resets what was collected nor ends the loop.
RECURSIVE LoggingOptionsDisableAppended(_, _)
LoggingOptionsDisableAppended(acc, logging) ==
  IF logging = <<>> THEN acc
  ELSE IF Head(logging) = "disable"
  THEN LoggingOptionsDisableAppended(Append(acc, "disable"), Tail(logging))
  ELSE IF Head(logging) = "log-both"
  THEN LoggingOptionsDisableAppended(acc \o <<"log-start", "log-end">>, Tail(logging))
  ELSE IF Head(logging) \in {"True", "true", "syslog", "local"}
  THEN LoggingOptionsDisableAppended(Append(acc, "log-end"), Tail(logging))
  ELSE LoggingOptionsDisableAppended(acc, Tail(logging))

\* Rule.ModifyOptions, lines 191-201.
RECURSIVE LoggingOptions(_, _)
LoggingOptions(acc, logging) ==
  IF logging = <<>> THEN acc
  ELSE IF Head(logging) = "disable" THEN <<"disable">>
  ELSE IF Head(logging) = "log-both"
  THEN LoggingOptions(acc \o <<"log-start", "log-end">>, Tail(logging))
  ELSE IF Head(logging) \in {"True", "true", "syslog", "local"}
  THEN LoggingOptions(Append(acc, "log-end"), Tail(logging))
  ELSE LoggingOptions(acc, Tail(logging))

\* Python's order of the parent tokens drawn here.
TokenRank(token) == CASE token = "BAR" -> 1 [] token = "FOO" -> 2

\* sorted(set of tokens)
RECURSIVE Sorted(_)
Sorted(tokens) ==
  IF tokens = {} THEN <<>>
  ELSE LET least == CHOOSE x \in tokens : \A y \in tokens : TokenRank(x) <= TokenRank(y)
       IN  <<least>> \o Sorted(tokens \ {least})

\* A variant of AddressOptions that lists the token of every address, in the
\* order of the addresses.
AddressOptionsPerAddress(addresses) ==
  IF addresses # <<>>
  THEN [i \in 1..Len(addresses) |-> addresses[i].parent_token]
  ELSE <<"any">>

\* Rule.ModifyOptions, lines 203-223.
AddressOptions(addresses) ==
  IF addresses # <<>>
  THEN Sorted({addresses[i].parent_token : i \in 1..Len(addresses)})
  ELSE <<"any">>

\* One lookup of (ports, p) by a term, for the history: known is whether the
\* registry held the pair, name the service name the lookup gave ("" when
\* it raised).
Request(term_name, ports, p, known, name) ==
  [term |-> term_name, ports |-> ports, protocol |-> p, known |-> known, name |-> name]

\* A variant of ServiceOptions that creates a Service for every protocol of
\* the term, without looking the pair up first.
RECURSIVE ServiceOptionsAlwaysCreate(_, _, _, _)
ServiceOptionsAlwaysCreate(acc, ports, term_name, protocol) ==
  IF protocol = <<>> \/ acc.error # NoError THEN acc
  ELSE LET p == Head(protocol)
           known == InServiceMap(acc.service_map, ports, p)
           new_service == Service(acc.service_map, ports, term_name, p)
       IN  IF new_service.error # NoError
           THEN [acc EXCEPT
                   !.error = new_service.error,
                   !.requests = Append(@, Request(term_name, ports, p, known, ""))]
           ELSE ServiceOptionsAlwaysCreate(
                  [acc EXCEPT
                     !.service_map = new_service.service_map,
                     !.service = Append(@, ServiceName(new_service.service_map, ports, p)),
                     !.requests = Append(@, Request(term_name, ports, p, known,
                                      ServiceName(new_service.service_map, ports, p)))],
                  ports, term_name, Tail(protocol))

\* Rule.ModifyOptions, lines 245-254: the accumulator is
\* [error, service_map, service, requests].
RECURSIVE ServiceOptions(_, _, _, _)
ServiceOptions(acc, ports, term_name, protocol) ==
  IF protocol = <<>> \/ acc.error # NoError THEN acc
  ELSE LET p == Head(protocol)
           known == InServiceMap(acc.service_map, ports, p)
       IN  IF known
           THEN ServiceOptions(
                  [acc EXCEPT
                     !.service = Append(@, ServiceName(acc.service_map, ports, p)),
                     !.requests = Append(@, Request(term_name, ports, p, known,
                                                    ServiceName(acc.service_map, ports, p)))],
                  ports, term_name, Tail(protocol))
           ELSE LET new_service == Service(acc.service_map, ports, term_name, p)
                IN  IF new_service.error # NoError
                    THEN [acc EXCEPT
                            !.error = new_service.error,
                            !.requests = Append(@, Request(term_name, ports, p, known, ""))]
                    ELSE ServiceOptions(
                           [acc EXCEPT
                              !.service_map = new_service.service_map,
                              !.service = Append(@, ServiceName(new_service.service_map,
                                                                ports, p)),
                              !.requests = Append(@, Request(term_name, ports, p, known,
                                               ServiceName(new_service.service_map,
                                                           ports, p)))],
                           ports, term_name, Tail(protocol))

\* Rule.ModifyOptions, lines 256-268.
RECURSIVE ApplicationOptions(_, _)
ApplicationOptions(application, protocol) ==
  IF protocol = <<>> THEN application
  ELSE LET proto_name == Head(protocol)
       IN  IF proto_name \in {"icmp", "icmpv6"}
           THEN ApplicationOptions(application, Tail(protocol))
           ELSE IF proto_name \in {"igmp", "sctp"}
           THEN ApplicationOptions(
                  IF Contains(application, proto_name) THEN application
                  ELSE Append(application, proto_name), Tail(protocol))
           ELSE IF proto_name \in {"tcp", "udp"}
           THEN ApplicationOptions(
                  IF Contains(application, "any") THEN application
                  ELSE Append(application, "any"), Tail(protocol))
           ELSE ApplicationOptions(application, Tail(protocol))

\* Rule.__init__ and Rule.ModifyOptions: [error, service_map, options, requests].
Rule(smap, fzone, tzone, term) ==
  LET services == IF term.destination_port # <<>>
                  THEN ServiceOptions([error |-> NoError, service_map |-> smap,
                                       service |-> <<>>, requests |-> <<>>],
                                      PortsOf(term.destination_port), term.name,
                                      term.protocol)
                  ELSE [error |-> NoError, service_map |-> smap, service |-> <<>>,
                        requests |-> <<>>]
      options ==
        [ from_zone |-> <<fzone>>,
          to_zone |-> <<tzone>>,
          description |-> term.comment,
          logging |-> LoggingOptions(<<>>, term.logging),
          source |-> AddressOptions(term.source_address),
          destination |-> AddressOptions(term.destination_address),
          action |-> term.action[1],
          option |-> term.option,
          service |-> services.service,
          application |-> ApplicationOptions(term.pan_application, term.protocol) ]
  IN  IF fzone = "" \/ tzone = ""
      THEN [ error |-> Raise("PaloAltoFWOptionError", term.name, ""),
             service_map |-> smap, options |-> options, requests |-> <<>> ]
      ELSE [ error |-> services.error, service_map |-> services.service_map,
             options |-> options, requests |-> services.requests ]

\* A variant of SetItem that puts a new key before the keys of the ruleset.
SetItemFirst(ruleset, name, options) ==
  IF \E i \in 1..Len(ruleset) : ruleset[i].name = name
  THEN [i \in 1..Len(ruleset) |->
          IF ruleset[i].name = name THEN [name |-> name, options |-> options]
          ELSE ruleset[i]]
  ELSE <<[name |-> name, options |-> options]>> \o ruleset

\* ruleset[name] = options
SetItem(ruleset, name, options) ==
  IF \E i \in 1..Len(ruleset) : ruleset[i].name = name
  THEN [i \in 1..Len(ruleset) |->
          IF ruleset[i].name = name THEN [name |-> name, options |-> options]
          ELSE ruleset[i]]
  ELSE Append(ruleset, [name |-> name, options |-> options])

\* _TranslatePolicy, lines 631-635: the accumulator is
\* [error, service_map, ruleset, requests].
RECURSIVE BuildRuleset(_, _, _, _)
BuildRuleset(acc, fzone, tzone, terms) ==
  IF terms = <<>> \/ acc.error # NoError THEN acc
  ELSE LET current_rule == Rule(acc.service_map, fzone, tzone, Head(terms))
       IN  BuildRuleset(
             [ error |-> current_rule.error,
               service_map |-> current_rule.service_map,
               ruleset |-> IF current_rule.error # NoError THEN acc.ruleset
                           ELSE SetItem(acc.ruleset, Head(terms).name,
                                        current_rule.options),
               requests |-> acc.requests \o current_rule.requests ],
             fzone, tzone, Tail(terms))

-----------------------------------------------------------------------------
(* The steps of a process that translates policies.                        *)

Step(op, term, outcome) == [op |-> op, term |-> term, outcome |-> outcome]

Init ==
  /\ service_map = <<>>
  /\ pc = "idle"
  /\ error = NoError
  /\ from_zone = ""
  /\ to_zone = ""
  /\ filter_type = ""
  /\ filter_options = <<>>
  /\ header_terms = <<>>
  /\ term_dup_check = {}
  /\ new_terms = <<>>
  /\ addressbook = <<>>
  /\ applications = <<>>
  /\ application_refs = <<>>
  /\ pafw_policies = <<>>
  /\ n_translations = 0
  /\ requests = {}
  /\ last = Step("Init", DefaultTerm, "")

\* A variant of NewTranslation in which a new generator object starts with an
\* empty service registry.
NewTranslationResetsRegistry(max_translations) ==
  /\ pc \in {"idle", "done", "error"}
  /\ n_translations < max_translations
  /\ n_translations' = n_translations + 1
  /\ pc' = "headers"
  /\ error' = NoError
  /\ from_zone' = ""
  /\ to_zone' = ""
  /\ filter_type' = ""
  /\ filter_options' = <<>>
  /\ header_terms' = <<>>
  /\ term_dup_check' = {}
  /\ new_terms' = <<>>
  /\ addressbook' = <<>>
  /\ applications' = <<>>
  /\ application_refs' = <<>>
  /\ pafw_policies' = <<>>
  /\ service_map' = <<>>
  /\ last' = Step("NewTranslation", DefaultTerm, "")
  /\ UNCHANGED requests

\* PaloAltoFW.__init__, lines 284-295: a new generator object; the class
\* attribute Service.service_map is what the earlier objects left.
NewTranslation(max_translations) ==
  /\ pc \in {"idle", "done", "error"}
  /\ n_translations < max_translations
  /\ n_translations' = n_translations + 1
  /\ pc' = "headers"
  /\ error' = NoError
  /\ from_zone' = ""
  /\ to_zone' = ""
  /\ filter_type' = ""
  /\ filter_options' = <<>>
  /\ header_terms' = <<>>
  /\ term_dup_check' = {}
  /\ new_terms' = <<>>
  /\ addressbook' = <<>>
  /\ applications' = <<>>
  /\ application_refs' = <<>>
  /\ pafw_policies' = <<>>
  /\ last' = Step("NewTranslation", DefaultTerm, "")
  /\ UNCHANGED <<service_map, requests>>

\* _TranslatePolicy, lines 358-389: the next header of the policy.
BeginHeader(options, max_headers) ==
  /\ pc = "headers"
  /\ Len(pafw_policies) < max_headers
  /\ filter_options' = options
  /\ header_terms' = <<>>
  /\ term_dup_check' = {}
  /\ new_terms' = <<>>
  /\ IF Len(options) < 4 \/ options[1] # "from-zone" \/ options[3] # "to-zone"
     THEN /\ pc' = "error"
          /\ error' = Raise("UnsupportedFilterError", "", "from-zone to-zone")
          /\ UNCHANGED <<from_zone, to_zone, filter_type>>
     ELSE LET ftype == IF Len(options) > 4 THEN options[5] ELSE "inet"
          IN  /\ from_zone' = options[2]
              /\ to_zone' = options[4]
              /\ filter_type' = ftype
              /\ IF ftype \notin SUPPORTED_AF
                 THEN /\ pc' = "error"
                      /\ error' = Raise("UnsupportedHeaderError", "", ftype)
                 ELSE /\ pc' = "terms"
                      /\ UNCHANGED error
  /\ last' = Step("BeginHeader", DefaultTerm, IF pc' = "error" THEN "raised" ELSE "")
  /\ UNCHANGED <<service_map, addressbook, applications, application_refs,
                 pafw_policies, n_translations, requests>>

\* _TranslatePolicy, lines 391-627: the next term of the header.
ProcessTerm(t, max_terms) ==
  /\ pc = "terms"
  /\ Len(header_terms) < max_terms
  /\ header_terms' = Append(header_terms, t)
  /\ \E r \in {TranslateTerm(t)} :
         /\ term_dup_check' = r.term_dup_check
         /\ addressbook' = r.addressbook
         /\ applications' = r.applications
         /\ application_refs' = r.application_refs
         /\ new_terms' = r.new_terms
         /\ error' = r.error
         /\ pc' = IF r.outcome = "raised" THEN "error" ELSE "terms"
         /\ last' = Step("ProcessTerm", t, r.outcome)
  /\ UNCHANGED <<service_map, from_zone, to_zone, filter_type, filter_options,
                 pafw_policies, n_translations, requests>>

\* _TranslatePolicy, lines 629-637: the rules of the header's terms.
EndHeader ==
  /\ pc = "terms"
  /\ \E r \in {BuildRuleset([error |-> NoError, service_map |-> service_map,
                            ruleset |-> <<>>, requests |-> <<>>],
                           from_zone, to_zone, new_terms)} :
         /\ service_map' = r.service_map
         /\ requests' = requests \cup
              { [translation |-> n_translations, header |-> Len(pafw_policies) + 1,
                 request |-> r.requests[i]] : i \in 1..Len(r.requests) }
         /\ error' = r.error
         /\ IF r.error # NoError
            THEN /\ pc' = "error"
                 /\ UNCHANGED pafw_policies
            ELSE /\ pc' = "headers"
                 /\ pafw_policies' = Append(pafw_policies,
                                            [ filter_options |-> filter_options,
                                              ruleset |-> r.ruleset ])
         /\ last' = Step("EndHeader", DefaultTerm,
                         IF r.error # NoError THEN "raised" ELSE "")
  /\ UNCHANGED <<from_zone, to_zone, filter_type, filter_options, header_terms,
                 term_dup_check, new_terms, addressbook, applications,
                 application_refs, n_translations>>

\* _TranslatePolicy returns: the policy has no more headers.
Finish ==
  /\ pc = "headers"
  /\ pc' = "done"
  /\ last' = Step("Finish", DefaultTerm, "")
  /\ UNCHANGED <<service_map, error, instance_vars, n_translations, requests>>

\* Service(ports, service_name, protocol) called on its own, lines 142-161;
\* the caller handles the exception, and the registry stays as it was.
RegisterService(ports, service_name, protocol, max_services) ==
  /\ pc = "idle"
  /\ Len(service_map) < max_services
  /\ \E r \in {Service(service_map, ports, service_name, protocol)} :
         /\ service_map' = r.service_map
         /\ error' = r.error
         /\ requests' =
              { [ translation |-> 0, header |-> 0,
                  request |-> Request(service_name, ports, protocol,
                                      InServiceMap(service_map, ports, protocol),
                                      IF r.error = NoError
                                      THEN ServiceName(r.service_map, ports, protocol)
                                      ELSE "") ] }
         /\ last' = Step("Service", DefaultTerm,
                         IF r.error = NoError THEN "registered" ELSE "raised")
  /\ UNCHANGED <<pc, instance_vars, n_translations>>

-----------------------------------------------------------------------------
(* PaloAltoFW.__str__: the parts of the rendered document.                 *)

\* Term.ACTIONS.get(action)
ActionsGet(action) ==
  IF \E p \in Term_ACTIONS : p[1] = action
  THEN (CHOOSE p \in Term_ACTIONS : p[1] = action)[2]
  ELSE "None"

\* Lines 906-914: the log elements of a rule, as <<element, text>> pairs.
RenderLogging(logging) ==
  IF logging = <<>> THEN <<>>
  ELSE (IF Contains(logging, "disable")
        THEN << <<"log-start", "no">>, <<"log-end", "no">> >> ELSE <<>>)
       \o (IF Contains(logging, "log-start") THEN << <<"log-start", "yes">> >> ELSE <<>>)
       \o (IF Contains(logging, "log-end") THEN << <<"log-end", "yes">> >> ELSE <<>>)

\* Lines 839-916: the <entry> of one rule.
RenderRule(name, options) ==
  [ name |-> name,
    description |-> Join(options.description, " "),
    to |-> options.to_zone,
    from |-> options.from_zone,
    source |-> IF options.source = <<>> THEN <<"any">> ELSE options.source,
    destination |-> IF options.destination = <<>> THEN <<"any">>
                    ELSE options.destination,
    service |-> IF options.service = <<>> /\ options.application = <<>>
                THEN <<"any">>
                ELSE IF options.service = <<>> THEN <<"application-default">>
                ELSE options.service,
    action |-> ActionsGet(options.action),
    interzone |-> Range(options.from_zone) \ Range(options.to_zone) # {},
    application |-> IF options.application = <<>> THEN <<"any">>
                    ELSE options.application,
    logging |-> RenderLogging(options.logging) ]

RenderRuleset(ruleset) ==
  [i \in 1..Len(ruleset) |-> RenderRule(ruleset[i].name, ruleset[i].options)]

\* Lines 837-838: the rule entries of every header, in order.
RECURSIVE RenderRules(_)
RenderRules(policies) ==
  IF policies = <<>> THEN <<>>
  ELSE RenderRuleset(Head(policies).ruleset) \o RenderRules(Tail(policies))

\* Lines 809-825: the <service> entries.
RenderServices(smap) ==
  [i \in 1..Len(smap) |->
     [name |-> smap[i].name, protocol |-> smap[i].protocol,
      port |-> Join(smap[i].ports, ",")]]

\* Lines 707-728: the custom <application> entries.
RenderApplications(apps, refs) ==
  LET custom == SelectSeq(apps, LAMBDA a : a \in DOMAIN refs)
  IN  [i \in 1..Len(custom) |-> [name |-> custom[i], entry |-> refs[custom[i]]]]

\* address_book_names_dict[name] = address, unless the address it holds is a
\* supernet of address: lines 761-764.
NamesDictPut(names_dict, entry) ==
  IF \E i \in 1..Len(names_dict) : names_dict[i].name = entry.name
  THEN [i \in 1..Len(names_dict) |->
          IF names_dict[i].name = entry.name
             /\ ~supernet_of(names_dict[i].address, entry.address)
          THEN entry ELSE names_dict[i]]
  ELSE Append(names_dict, entry)

RECURSIVE NamesDictOfEntries(_, _)
NamesDictOfEntries(names_dict, entries) ==
  IF entries = <<>> THEN names_dict
  ELSE NamesDictOfEntries(NamesDictPut(names_dict, Head(entries)), Tail(entries))

\* groups = sorted(self.addressbook[zone]): the groups of a zone by token.
RECURSIVE SortedGroups(_)
SortedGroups(groups) ==
  IF groups = <<>> THEN <<>>
  ELSE LET least == CHOOSE i \in 1..Len(groups) :
                      \A j \in 1..Len(groups) :
                        TokenRank(groups[i].token) <= TokenRank(groups[j].token)
       IN  <<groups[least]>>
             \o SortedGroups([k \in 1..(Len(groups) - 1) |->
                                IF k < least THEN groups[k] ELSE groups[k + 1]])

RECURSIVE NamesDictOfGroups(_, _)
NamesDictOfGroups(names_dict, groups) ==
  IF groups = <<>> THEN names_dict
  ELSE NamesDictOfGroups(NamesDictOfEntries(names_dict, Head(groups).entries),
                         Tail(groups))

\* Lines 754-764: address_book_names_dict, in insertion order.
RECURSIVE AddressBookNames(_, _)
AddressBookNames(names_dict, book) ==
  IF book = <<>> THEN names_dict
  ELSE AddressBookNames(NamesDictOfGroups(names_dict, SortedGroups(Head(book).groups)),
                        Tail(book))

\* Lines 779-786: the <address> entries, as the set of them.
RenderAddresses(book) ==
  LET names_dict == AddressBookNames(<<>>, book)
  IN  { [name |-> names_dict[i].name, ip_netmask |-> names_dict[i].address.ip] :
          i \in 1..Len(names_dict) }

\* address_book_groups_dict[nested_group] = group_names: lines 767-771.
GroupsDictPut(groups_dict, group) ==
  LET item == [token |-> group.token,
               names |-> [k \in 1..Len(group.entries) |-> group.entries[k].name]]
  IN  IF \E i \in 1..Len(groups_dict) : groups_dict[i].token = group.token
      THEN [i \in 1..Len(groups_dict) |->
              IF groups_dict[i].token = group.token THEN item ELSE groups_dict[i]]
      ELSE Append(groups_dict, item)

RECURSIVE GroupsDictOfGroups(_, _)
GroupsDictOfGroups(groups_dict, groups) ==
  IF groups = <<>> THEN groups_dict
  ELSE GroupsDictOfGroups(GroupsDictPut(groups_dict, Head(groups)), Tail(groups))

\* Lines 756-775: address_book_groups_dict, sorted by token after every zone.
RECURSIVE AddressBookGroups(_, _)
AddressBookGroups(groups_dict, book) ==
  IF book = <<>> THEN groups_dict
  ELSE AddressBookGroups(
         SortedGroups(GroupsDictOfGroups(groups_dict, SortedGroups(Head(book).groups))),
         Tail(book))

\* Lines 794-802: the <address-group> entries, in order.
RenderAddressGroups(book) ==
  LET groups_dict == AddressBookGroups(<<>>, book)
  IN  [i \in 1..Len(groups_dict) |->
         [name |-> groups_dict[i].token, members |-> groups_dict[i].names]]

\* self.application_groups: line 289; nothing is ever added to it.
application_groups == <<>>

\* A variant of DocumentOrder with <address> before <address-group>.
DocumentOrderAddressFirst(initial, app_groups, service, rules, groups, addresses) ==
  <<initial, app_groups, service, rules, addresses, groups>>

\* Lines 931-934: the order in which the sections are joined.
DocumentOrder(initial, app_groups, service, rules, groups, addresses) ==
  <<initial, app_groups, service, rules, groups, addresses>>

\* PaloAltoFW.__str__: the sections of the document.  Each is its element
\* name, whether it is printed as an empty element (<name/>) and the number
\* of its entries.
Document(apps, refs, app_groups, smap, policies, book) ==
  DocumentOrder(
    \* lines 705-737: etree prints an element without children as <application/>
    [ tag |-> "application",
      empty_element |-> RenderApplications(apps, refs) = <<>>,
      entries |-> Len(RenderApplications(apps, refs)) ],
    \* lines 739-747
    [ tag |-> "application-group",
      empty_element |-> app_groups = <<>>,
      entries |-> Len(app_groups) ],
    \* lines 805-825
    [ tag |-> "service",
      empty_element |-> smap = <<>>,
      entries |-> Len(RenderServices(smap)) ],
    \* lines 827-922
    [ tag |-> "rules",
      empty_element |-> FALSE,
      entries |-> Len(RenderRules(policies)) ],
    \* lines 790-803
    [ tag |-> "address-group",
      empty_element |-> FALSE,
      entries |-> Len(RenderAddressGroups(book)) ],
    \* lines 749-788
    [ tag |-> "address",
      empty_element |-> FALSE,
      entries |-> Cardinality(RenderAddresses(book)) ])

-----------------------------------------------------------------------------
(* The inputs drawn: headers and terms.                                    *)

MaxTranslations == 2

MaxHeaders == 2

MaxTerms == 2

MaxIcmpTypes == 2

MaxLogging == 2

Header(fzone, tzone, af) == <<"from-zone", fzone, "to-zone", tzone, af>>

Address(ip, token) == [ip |-> ip, parent_token |-> token]

Next(headers, terms, max_translations, max_headers, max_terms) ==
  \/ NewTranslation(max_translations)
  \/ \E h \in headers : BeginHeader(h, max_headers)
  \/ \E t \in terms : ProcessTerm(t, max_terms)
  \/ EndHeader
  \/ Finish

OneHeader == 1

\* ICMP terms: protocol and icmp-type vary.
IcmpTypeNamesDrawn == {"echo-request", "neighbor-solicit", "bogus"}

TermsIcmp ==
  { [DefaultTerm EXCEPT !.name = "t1", !.protocol = p, !.icmp_type = ty] :
      p \in {<<"icmp">>, <<"icmpv6">>},
      ty \in SeqsUpTo(IcmpTypeNamesDrawn, MaxIcmpTypes) }
  \cup
  { [DefaultTerm EXCEPT !.name = "t2", !.protocol = p, !.icmp_type = ty] :
      p \in {<<"icmp">>, <<"icmpv6">>}, ty \in {<<>>, <<"echo-request">>} }
  \cup
  { [DefaultTerm EXCEPT !.name = "t3", !.protocol = p, !.icmp_type = ty,
                        !.stateless_reply = s] :
      p \in {<<"tcp">>, <<"icmp">>},
      ty \in {<<"echo-request">>, <<"bogus">>}, s \in BOOLEAN }
  \cup
  { [DefaultTerm EXCEPT !.name = "t2", !.protocol = <<"icmp">>, !.icmp_type = ty,
                        !.source_address = <<Address("2001:db8::/32", "FOO")>>] :
      ty \in {<<"echo-request">>, <<"neighbor-solicit">>, <<"bogus">>} }

HeadersIcmp ==
  { <<"from-zone", "trust", "to-zone", "untrust">>,
    Header("trust", "untrust", "inet6"), Header("trust", "untrust", "mixed") }

NextIcmp == Next(HeadersIcmp, TermsIcmp, MaxTranslations, OneHeader, MaxTerms)

SpecIcmp == Init /\ [][NextIcmp]_vars

\* Terms with destination ports: the services of the registry.
TermsSvc ==
  { [DefaultTerm EXCEPT !.name = "t1", !.protocol = <<"tcp">>,
                        !.destination_port = << <<80, 80>> >>],
    [DefaultTerm EXCEPT !.name = "t2", !.protocol = <<"tcp">>,
                        !.destination_port = << <<80, 80>> >>],
    [DefaultTerm EXCEPT !.name = "t1", !.protocol = <<"tcp">>,
                        !.destination_port = << <<443, 443>> >>],
    [DefaultTerm EXCEPT !.name = "t1", !.protocol = <<"tcp", "udp">>,
                        !.destination_port = << <<80, 80>>, <<8000, 8080>> >>],
    [DefaultTerm EXCEPT !.name = "t1", !.protocol = <<"tcp">>,
                        !.option = {"tcp-established"}],
    [DefaultTerm EXCEPT !.name = "t2", !.expiration = current_date] }

HeadersSvc == { <<"from-zone", "trust", "to-zone", "untrust">> }

NextSvc == Next(HeadersSvc, TermsSvc, MaxTranslations, MaxHeaders, MaxTerms)

SpecSvc == Init /\ [][NextSvc]_vars

\* Terms with addresses: the address book.
A4 == Address("10.0.0.0/8", "FOO")

B4 == Address("10.1.0.0/16", "FOO")

C4 == Address("11.0.0.0/24", "FOO")

SourcesDrawn == { <<>>, <<A4>>, <<B4>>, <<A4, B4>>, <<A4, C4>>, <<C4, A4>> }

DestinationsDrawn == { <<>>, <<C4>>, <<A4>>, <<Address("10.0.0.0/8", "BAR")>> }

TermsAddr ==
  { [DefaultTerm EXCEPT !.name = n, !.protocol = <<"tcp">>,
                        !.source_address = src, !.destination_address = dst] :
      n \in {"t1", "t2"}, src \in SourcesDrawn, dst \in DestinationsDrawn }
  \cup
  { [DefaultTerm EXCEPT !.name = "t2", !.protocol = <<"tcp">>,
                        !.source_address = <<A4, C4>>,
                        !.source_address_exclude = <<A4>>],
    [DefaultTerm EXCEPT !.name = "t2", !.protocol = <<"tcp">>,
                        !.source_address = <<A4>>, !.stateless_reply = TRUE] }

HeadersAddr == { <<"from-zone", "trust", "to-zone", "untrust">> }

NextAddr == Next(HeadersAddr, TermsAddr, MaxTranslations, OneHeader, MaxTerms)

SpecAddr == Init /\ [][NextAddr]_vars

\* Terms whose action, logging directives and skip conditions vary.
ActionsDrawn == {"accept", "deny", "reject", "reject-with-tcp-rst", "next"}

LoggingDrawn == {"disable", "log-both", "true", "True", "syslog", "local"}

TermsRule ==
  { [DefaultTerm EXCEPT !.name = "t1", !.protocol = <<"tcp">>, !.action = <<a>>] :
      a \in ActionsDrawn }
  \cup
  { [DefaultTerm EXCEPT !.name = "t2", !.protocol = <<"tcp">>, !.logging = lg] :
      lg \in SeqsUpTo(LoggingDrawn, MaxLogging) }
  \cup
  { [DefaultTerm EXCEPT !.name = "t1", !.protocol = p, !.icmp_type = ty,
                        !.stateless_reply = s, !.option = o] :
      p \in {<<"tcp">>, <<"gre">>, <<"icmp">>}, ty \in {<<>>, <<"bogus">>},
      s \in BOOLEAN, o \in {{}, {"established"}, {"tcp-established"}} }

HeadersRule == { <<"from-zone", "trust", "to-zone", "untrust">> }

NextRule == Next(HeadersRule, TermsRule, MaxTranslations, OneHeader, MaxTerms)

SpecRule == Init /\ [][NextRule]_vars

-----------------------------------------------------------------------------
(* Properties.  HeaderBuilt: the rules of the header's new_terms have just *)
(* been built, so the last ruleset of pafw_policies is theirs.             *)

HeaderBuilt == pc = "headers" /\ last.op = "EndHeader"

LastRuleset == pafw_policies[Len(pafw_policies)].ruleset

\* The rendered rule of term name in the header just built.
RenderedRuleOf(name) ==
  LET i == CHOOSE k \in 1..Len(LastRuleset) : LastRuleset[k].name = name
  IN  RenderRule(name, LastRuleset[i].options)

\* The ICMP versions (4, 6) that the filter type and the flows of a term admit.
AdmittedIcmpVersions(ftype, term) ==
  LET flows == Flows(term.source_address, term.destination_address)
  IN  {v \in {4, 6} :
         /\ ("ip" \o ToString(v) \o "-ip" \o ToString(v)) \in flows
         /\ \/ ftype = "mixed"
            \/ (v = 4 /\ ftype = "inet")
            \/ (v = 6 /\ ftype = "inet6")}

\* C1: every emitted term whose protocol set contains icmp (icmpv6), that
\* names explicit ICMP types, in a filter whose mode and flows admit that
\* ICMP version, has icmp-<type> (icmp6-<type>) among the application
\* members of its rule, for every type it names; also when an earlier term of
\* the translation created the application entry.
C1_IcmpApplicationsAttached ==
  HeaderBuilt =>
    \A i \in 1..Len(new_terms) :
      LET term == new_terms[i]
          members == RenderedRuleOf(term.name).application
      IN  /\ (Contains(term.protocol, "icmp") /\ 4 \in AdmittedIcmpVersions(filter_type, term))
              => \A k \in 1..Len(term.icmp_type) :
                   Contains(members, "icmp-" \o term.icmp_type[k])
          /\ (Contains(term.protocol, "icmpv6") /\ 6 \in AdmittedIcmpVersions(filter_type, term))
              => \A k \in 1..Len(term.icmp_type) :
                   Contains(members, "icmp6-" \o term.icmp_type[k])

\* The term that the step taken consumes, when the step is ProcessTerm.
TermStep == pc = "terms" /\ last'.op = "ProcessTerm"

\* The term reaches the ICMP checks of the pass: it is not skipped, its name
\* passes the length and duplicate checks, it is not expired and the filter
\* type does not drop it.  (Evaluated in the state before the term.)
ReachesIcmp(t) ==
  /\ ~t.stateless_reply
  /\ t.option \cap {"established", "tcp-established"} = {}
  /\ Len(t.name) <= TERM_MAX_LENGTH
  /\ t.name \notin term_dup_check
  /\ ~(t.expiration # 0 /\ t.expiration <= current_date)
  /\ ~AddressFamily(filter_type, t.protocol,
                    Flows(RemoveAll(t.source_address, t.source_address_exclude),
                          RemoveAll(t.destination_address,
                                    t.destination_address_exclude))).drop

NamesTypeWithoutIcmp(t) ==
  /\ Len(t.icmp_type) >= 1
  /\ \A i \in 1..Len(t.protocol) : t.protocol[i] \notin {"icmp", "icmpv6"}

\* C7 as stated: every term that names an ICMP type while its protocol set
\* contains neither icmp nor icmpv6 aborts the translation with
\* UnsupportedFilterError.
C7_Original ==
  (last.op = "ProcessTerm" /\ NamesTypeWithoutIcmp(last.term))
    => (pc = "error" /\ error.type = "UnsupportedFilterError")

\* C7, amended: a term that reaches the ICMP checks (not skipped as
\* stateless-reply or established, name unique in the header and within the
\* length cap, not expired, not dropped by the address-family resolver) and
\* names an ICMP type while its protocol set contains neither icmp nor icmpv6
\* aborts the translation with UnsupportedFilterError: no document is produced.
C7_IcmpTypeNeedsIcmpProtocol ==
  [][(TermStep /\ ReachesIcmp(last'.term) /\ NamesTypeWithoutIcmp(last'.term))
       => (pc' = "error" /\ error'.type = "UnsupportedFilterError"
           /\ error'.term = last'.term.name)]_vars

C7_Witness ==
  /\ last.op = "ProcessTerm"
  /\ last.term.icmp_type = <<"echo-request">>
  /\ last.term.protocol = <<"tcp">>
  /\ pc = "error"
  /\ error.type = "UnsupportedFilterError"

\* The type names of a term that are absent from the ICMP type table of a
\* version in vs.
UnknownTypes(t, vs) ==
  {t.icmp_type[i] : i \in {k \in 1..Len(t.icmp_type) :
                             \E v \in vs : \A p \in ICMP_TYPE(v) : p[1] # t.icmp_type[k]}}

\* The table of the term's protocol: IPv4 for icmp, IPv6 for icmpv6.
ProtocolVersions(t) ==
  {v \in {4, 6} : \E i \in 1..Len(t.protocol) :
                    t.protocol[i] = (IF v = 4 THEN "icmp" ELSE "icmpv6")}

IsSkippedTerm(t) ==
  \/ t.stateless_reply = TRUE
  \/ t.option \cap {"established", "tcp-established"} # {}

\* The terms of the header consumed before the last one.
PriorTerms == SubSeq(header_terms, 1, Len(header_terms) - 1)

\* The names of the rules of a ruleset, and of the kept terms, in order.
RuleNames(ruleset) == [i \in 1..Len(ruleset) |-> ruleset[i].name]

TermNames(terms) == [i \in 1..Len(terms) |-> terms[i].name]

-----------------------------------------------------------------------------
(* The service registry.                                                   *)

SamePair(a, b) == a.ports = b.ports /\ a.protocol = b.protocol

\* The entries of the registry, and of the rendered <service> section, for the
\* pair of request q.
RegistryEntries(q) ==
  {i \in 1..Len(service_map) : SamePair(service_map[i], q)}

RenderedEntries(q) ==
  {k \in 1..Len(RenderServices(service_map)) :
     /\ RenderServices(service_map)[k].protocol = q.protocol
     /\ RenderServices(service_map)[k].port = Join(q.ports, ",")}

\* C2 as stated: for every (ports, protocol) pair requested by more than one
\* term, every request yields the same service name, none raises an error, and
\* the registry holds, and the document renders, exactly one entry for the pair.
C2_Original ==
  \A r1, r2 \in requests :
    (r1 # r2 /\ SamePair(r1.request, r2.request))
      => /\ r1.request.name # ""
         /\ r1.request.name = r2.request.name
         /\ Cardinality(RegistryEntries(r1.request)) = 1
         /\ Cardinality(RenderedEntries(r1.request)) = 1

\* C2, amended: a request for a (ports, protocol) pair that the registry holds
\* (registered by an earlier term of the header, of another header or of
\* another translation of the process) raises no error; every request that
\* yields a name yields the name of the one registry entry of the pair, so all
\* of them the same name, and the document renders exactly one <service> entry
\* for the pair, under that name; the registry never holds two entries for one
\* pair.  (A request for a pair that the registry does not hold may fail, and
\* then the pair has no entry.)
C2_ServiceReuse ==
  /\ \A r \in requests : r.request.known => r.request.name # ""
  /\ \A r \in requests :
       r.request.name # ""
         => /\ Cardinality(RegistryEntries(r.request)) = 1
            /\ \A i \in RegistryEntries(r.request) : service_map[i].name = r.request.name
            /\ Cardinality(RenderedEntries(r.request)) = 1
            /\ \A k \in RenderedEntries(r.request) :
                 RenderServices(service_map)[k].name = r.request.name
  /\ \A i, j \in 1..Len(service_map) :
       SamePair(service_map[i], service_map[j]) => i = j

\* A pair requested in two translations, and by two terms of one header.
C2_Witness ==
  \E r1, r2, r3 \in requests :
    /\ r1.translation # r2.translation
    /\ SamePair(r1.request, r2.request)
    /\ r2.request.known
    /\ r1.request.name = r2.request.name
    /\ r3.translation = r2.translation /\ r3.header = r2.header
    /\ r3.request.term # r2.request.term
    /\ SamePair(r3.request, r2.request)
    /\ r3.request.name = r2.request.name

-----------------------------------------------------------------------------
(* The address book.                                                       *)

\* The buckets of the address book: [zone, token, entries].
Buckets ==
  UNION { { [ zone |-> addressbook[z].zone,
              token |-> addressbook[z].groups[g].token,
              entries |-> addressbook[z].groups[g].entries ] :
              g \in 1..Len(addressbook[z].groups) } :
          z \in 1..Len(addressbook) }

\* b lies within a, and is not a.
StrictSupernet(a, b) ==
  /\ a.ip # b.ip
  /\ NetVersion(a.ip) = NetVersion(b.ip)
  /\ NetFirst(a.ip) <= NetFirst(b.ip)
  /\ NetLast(b.ip) <= NetLast(a.ip)

\* C3: when an object A is registered under a zone and parent token and a
\* strict subnet B of A is registered later under the same zone and token,
\* registering B is a no-op (no bucket holds B after A), and the rendered
\* address book has no <address> entry for B.
C3_SubnetOfRegisteredIsNoOp ==
  pc = "done" =>
    /\ \A b \in Buckets : \A i, j \in 1..Len(b.entries) :
         i < j => ~StrictSupernet(b.entries[i].address, b.entries[j].address)
    /\ \A x \in RenderAddresses(addressbook) :
         ~\E b \in Buckets : \E i, j \in 1..Len(b.entries) :
            /\ i < j
            /\ StrictSupernet(b.entries[i].address, b.entries[j].address)
            /\ x.name = b.entries[j].name
            /\ x.ip_netmask = b.entries[j].address.ip

\* The generated names of a parent token, over the zones.
NamesOfToken(token) ==
  UNION { {b.entries[k].name : k \in 1..Len(b.entries)} :
          b \in {c \in Buckets : c.token = token} }

\* The <address> entries rendered for an object.
AddressEntriesOf(address) ==
  {x \in RenderAddresses(addressbook) :
     x.ip_netmask = address.ip /\ x.name \in NamesOfToken(address.parent_token)}

\* The objects that two kept terms of the header register on the same side
\* (inet filter: the IPv4 addresses of a kept term are registered).
RegisteredTwice ==
  {a \in UNION { Range(new_terms[i].source_address)
                   \cup Range(new_terms[i].destination_address) :
                 i \in 1..Len(new_terms) } :
     /\ filter_type = "inet" /\ NetVersion(a.ip) = 4
     /\ \E i, j \in 1..Len(new_terms) :
          /\ i # j
          /\ \/ a \in Range(new_terms[i].source_address)
                  \cap Range(new_terms[j].source_address)
             \/ a \in Range(new_terms[i].destination_address)
                  \cap Range(new_terms[j].destination_address)}

\* C4 as stated: an object registered twice under one zone and parent token
\* has exactly one <address> entry in the rendered address book.
C4_Original ==
  pc = "done" => \A a \in RegisteredTwice : Cardinality(AddressEntriesOf(a)) = 1

\* No two zones generate one name of the token for different objects.
NoNameCollision(token) ==
  \A b1, b2 \in {c \in Buckets : c.token = token} :
    \A k \in 1..Len(b1.entries) :
      k <= Len(b2.entries) => b1.entries[k].address.ip = b2.entries[k].address.ip

\* C4, amended: registering an object whose string form equals that of an
\* object of the same zone and parent token changes nothing: a bucket never
\* holds two entries of one string form, and its names are the consecutive
\* ordinals token_0, token_1, ... (none is consumed by a repeated
\* registration).  The rendered address book has exactly one <address> entry
\* under each generated name, and exactly one <address> entry for the object
\* whenever no two zones generate the same name of its parent token for
\* different objects.
C4_DuplicateRegistrationIsNoOp ==
  \A b \in Buckets :
    /\ \A i, j \in 1..Len(b.entries) :
         b.entries[i].address.ip = b.entries[j].address.ip => i = j
    /\ \A i \in 1..Len(b.entries) :
         /\ b.entries[i].name = b.token \o "_" \o ToString(i - 1)
         /\ Cardinality({x \in RenderAddresses(addressbook) :
                           x.name = b.entries[i].name}) = 1
         /\ NoNameCollision(b.token)
              => Cardinality(AddressEntriesOf(b.entries[i].address)) = 1

\* Two kept terms name 10.0.0.0/8 of FOO as their source.
C4_Witness ==
  /\ pc = "done"
  /\ Len(new_terms) = 2
  /\ new_terms[1].source_address = <<A4>> /\ new_terms[1].destination_address = <<>>
  /\ new_terms[2].source_address = <<A4>> /\ new_terms[2].destination_address = <<>>
  /\ A4 \in RegisteredTwice
  /\ RenderAddresses(addressbook) = {[name |-> "FOO_0", ip_netmask |-> "10.0.0.0/8"]}

-----------------------------------------------------------------------------
(* Skipped and duplicate terms.                                            *)

\* C5: a term with the stateless-reply flag, or with option established or
\* tcp-established, is never among the kept terms nor the rules of a header,
\* whatever its other fields; the step that consumes it raises no error,
\* leaves the translation at the next term and changes nothing that the
\* document is rendered from.
C5_SkippedTermsNeverEmitted ==
  /\ [](/\ \A i \in 1..Len(new_terms) : ~IsSkippedTerm(new_terms[i])
        /\ HeaderBuilt => RuleNames(LastRuleset) = TermNames(new_terms))
  /\ [][(TermStep /\ IsSkippedTerm(last'.term))
          => /\ pc' = "terms"
             /\ error' = NoError
             /\ UNCHANGED <<new_terms, term_dup_check, addressbook, applications,
                            application_refs, pafw_policies, service_map>>]_vars

\* A skipped term that has the name of the term before it, an unsupported
\* protocol and an ICMP type without an ICMP protocol.
C5_Witness ==
  /\ last.op = "ProcessTerm"
  /\ "established" \in last.term.option
  /\ last.term.protocol = <<"gre">>
  /\ last.term.icmp_type = <<"bogus">>
  /\ Len(PriorTerms) = 1
  /\ PriorTerms[1].name = last.term.name
  /\ TermNames(new_terms) = <<last.term.name>>
  /\ pc = "terms"
  /\ error = NoError

\* The rulesets of the headers built before the one that EndHeader has just
\* finished (or failed to finish).
EarlierPolicies ==
  IF pc = "error" THEN pafw_policies
  ELSE SubSeq(pafw_policies, 1, Len(pafw_policies) - 1)

\* The names of kept terms of the header that an earlier header of the
\* translation has a rule for.
NamesOfEarlierHeaders ==
  {new_terms[i].name : i \in {k \in 1..Len(new_terms) :
     \E h \in 1..Len(EarlierPolicies) :
       Contains(RuleNames(EarlierPolicies[h].ruleset), new_terms[k].name)}}

\* C6 as stated: a term whose name equals that of a prior term of the same
\* header aborts the translation with a duplicate-term error; with the same
\* name in two headers the translation completes without error and each header
\* emits its rule for the name.
C6_Original ==
  /\ (last.op = "ProcessTerm"
      /\ \E i \in 1..Len(PriorTerms) : PriorTerms[i].name = last.term.name)
       => (pc = "error" /\ error.type = "PaloAltoFWDuplicateTermError")
  /\ (last.op = "EndHeader" /\ NamesOfEarlierHeaders # {})
       => /\ pc = "headers"
          /\ error = NoError
          /\ \A n \in NamesOfEarlierHeaders : Contains(RuleNames(LastRuleset), n)

\* C6, amended: a term aborts the translation with a duplicate-term error
\* exactly when it is not skipped (stateless-reply, established,
\* tcp-established) and its name equals that of a prior term of the same header
\* that was not skipped either (also one that was dropped later, as expired or
\* by the address-family resolver).  The same name in two headers of a policy
\* never raises a duplicate-term error, and each header emits its own rule for
\* it, unless building the rules of the header fails in the service registry: a
\* new (ports, protocol) pair whose service name is taken or too long aborts
\* the translation with a duplicate-service or name-too-long error.
C6_DuplicateTermName ==
  /\ last.op = "ProcessTerm"
       => ((pc = "error" /\ error.type = "PaloAltoFWDuplicateTermError")
             <=> /\ ~IsSkippedTerm(last.term)
                 /\ \E i \in 1..Len(PriorTerms) :
                      /\ PriorTerms[i].name = last.term.name
                      /\ ~IsSkippedTerm(PriorTerms[i]))
  /\ last.op = "EndHeader"
       => /\ error.type # "PaloAltoFWDuplicateTermError"
          /\ pc = "headers" => (error = NoError
                                /\ RuleNames(LastRuleset) = TermNames(new_terms))
          /\ pc = "error"
               => /\ error.type \in {"PaloAltoFWDuplicateServiceError",
                                     "PaloAltoFWNameTooLongError"}
                  /\ \E r \in requests :
                       /\ r.translation = n_translations
                       /\ r.header = Len(pafw_policies) + 1
                       /\ r.request.term = error.term
                       /\ ~r.request.known
                       /\ r.request.name = ""

\* Two headers of one policy, each with its rule t1; the second header held
\* an expired t2 before a second t2 would have been a duplicate.
C6_Witness ==
  /\ HeaderBuilt
  /\ Len(pafw_policies) = 2
  /\ Contains(RuleNames(pafw_policies[1].ruleset), "t1")
  /\ Contains(RuleNames(pafw_policies[2].ruleset), "t1")
  /\ Len(header_terms) = 2
  /\ header_terms[1].name = "t2"
  /\ header_terms[1].expiration # 0

-----------------------------------------------------------------------------
(* Actions and logging.                                                    *)

\* C9: for every emitted rule the rendered <action> is the image of the
\* term's action under accept -> allow, deny -> deny, reject -> reset-client,
\* reject-with-tcp-rst -> reset-client; no other value is rendered (for an
\* action outside the table the lookup gives None and the rule cannot be
\* rendered).
C9_ActionTable ==
  HeaderBuilt =>
    \A i \in 1..Len(new_terms) :
      LET a == new_terms[i].action[1]
          r == RenderedRuleOf(new_terms[i].name).action
      IN  /\ a = "accept" => r = "allow"
          /\ a = "deny" => r = "deny"
          /\ a = "reject" => r = "reset-client"
          /\ a = "reject-with-tcp-rst" => r = "reset-client"
          /\ r # "None" => r \in {"allow", "deny", "reset-client"}

C9_Witness ==
  /\ HeaderBuilt
  /\ Len(new_terms) = 2
  /\ new_terms[1].action = <<"reject">>
  /\ RenderedRuleOf(new_terms[1].name).action = "reset-client"
  /\ RenderedRuleOf(new_terms[2].name).action = "allow"

\* How many elements of s are x.
Count(s, x) == Cardinality({i \in 1..Len(s) : s[i] = x})

\* C10: for every emitted rule: when the logging directives of its term
\* contain disable, the rule renders exactly log-start no and log-end no,
\* whatever precedes or follows disable; otherwise log-start yes is rendered
\* iff log-both is present and log-end yes is rendered, once, iff log-both or
\* one of true, True, syslog, local is present, and nothing else is rendered;
\* with no directive no log element is rendered.
C10_LoggingRendered ==
  HeaderBuilt =>
    \A i \in 1..Len(new_terms) :
      LET lg == new_terms[i].logging
          R == RenderedRuleOf(new_terms[i].name).logging
          both == \E k \in 1..Len(lg) : lg[k] = "log-both"
          atend == \E k \in 1..Len(lg) : lg[k] \in {"true", "True", "syslog", "local"}
      IN  IF \E k \in 1..Len(lg) : lg[k] = "disable"
          THEN R = << <<"log-start", "no">>, <<"log-end", "no">> >>
          ELSE /\ Count(R, <<"log-start", "yes">>) = (IF both THEN 1 ELSE 0)
               /\ Count(R, <<"log-end", "yes">>) = (IF both \/ atend THEN 1 ELSE 0)
               /\ Len(R) = Count(R, <<"log-start", "yes">>) + Count(R, <<"log-end", "yes">>)
               /\ lg = <<>> => R = <<>>

\* disable after log-both.
C10_Witness ==
  /\ HeaderBuilt
  /\ Len(new_terms) = 1
  /\ new_terms[1].logging = <<"log-both", "disable">>
  /\ RenderedRuleOf(new_terms[1].name).logging
       = << <<"log-start", "no">>, <<"log-end", "no">> >>

-----------------------------------------------------------------------------
(* Terms whose addresses are of both IP versions, in filters of the three  *)
(* types: the address-family resolver.                                     *)

F4 == Address("10.0.0.0/8", "FOO")

F6 == Address("2001:db8::/32", "FOO")

G4 == Address("11.0.0.0/24", "BAR")

G6 == Address("2001::/16", "BAR")

SourcesFam == { <<>>, <<F4>>, <<F6>>, <<F4, G6>>, <<F4, F6>>, <<G6, G4, F4>> }

DestinationsFam == { <<>>, <<G4>>, <<G6>>, <<G4, G6>> }

TermsFam ==
  { [DefaultTerm EXCEPT !.name = "t1", !.protocol = <<"tcp">>,
                        !.source_address = src, !.destination_address = dst,
                        !.source_address_exclude = ex] :
      src \in SourcesFam, dst \in DestinationsFam, ex \in {<<>>, <<F4>>} }
  \cup
  { [DefaultTerm EXCEPT !.name = "t2", !.protocol = p, !.source_address = src] :
      p \in {<<"tcp">>, <<"icmp">>, <<"icmpv6">>}, src \in {<<>>, <<F4>>, <<F6>>} }
  \cup
  { [DefaultTerm EXCEPT !.name = "t2", !.protocol = <<"tcp">>,
                        !.destination_address = <<G4>>,
                        !.destination_address_exclude = <<G4>>],
    [DefaultTerm EXCEPT !.name = "t2", !.protocol = <<"tcp">>,
                        !.source_address = <<F4>>, !.expiration = current_date],
    [DefaultTerm EXCEPT !.name = "t2", !.protocol = <<"gre">>],
    [DefaultTerm EXCEPT !.name = "t2", !.protocol = <<"tcp">>,
                        !.source_address = <<F4>>, !.stateless_reply = TRUE],
    [DefaultTerm EXCEPT !.name = "t2", !.protocol = <<"icmpv6">>,
                        !.option = {"established"}] }

HeadersFam ==
  { <<"from-zone", "trust", "to-zone", "untrust">>,
    Header("trust", "untrust", "inet"), Header("trust", "untrust", "inet6"),
    Header("trust", "untrust", "mixed") }

NextFam == Next(HeadersFam, TermsFam, MaxTranslations, OneHeader, MaxTerms)

SpecFam == Init /\ [][NextFam]_vars

-----------------------------------------------------------------------------
(* The source and destination members of a rule.                           *)

\* The parent tokens of a list of addresses.
TokensOf(addresses) == {addresses[i].parent_token : i \in 1..Len(addresses)}

\* members lists the tokens of the addresses once each, in ascending order.
IsSortedTokenList(members, addresses) ==
  /\ Range(members) = TokensOf(addresses)
  /\ \A i, j \in 1..Len(members) :
       i < j => TokenRank(members[i]) < TokenRank(members[j])

\* C11: for every emitted term, the source members of its rule are <<"any">>
\* when the term has no source addresses, and otherwise the parent tokens of
\* its source addresses (those left after the exclusions), sorted and
\* duplicate-free; likewise the destination members.
C11_SourceDestinationMembers ==
  HeaderBuilt =>
    \A i \in 1..Len(new_terms) :
      LET term == new_terms[i]
          rule == RenderedRuleOf(term.name)
      IN  /\ IF term.source_address = <<>> THEN rule.source = <<"any">>
             ELSE IsSortedTokenList(rule.source, term.source_address)
          /\ IF term.destination_address = <<>> THEN rule.destination = <<"any">>
             ELSE IsSortedTokenList(rule.destination, term.destination_address)

\* A term with sources of FOO and BAR (given as BAR, BAR, FOO) and no
\* destination.
C11_Witness ==
  /\ HeaderBuilt
  /\ Len(new_terms) = 1
  /\ new_terms[1].source_address = <<G6, G4, F4>>
  /\ new_terms[1].destination_address = <<>>
  /\ RenderedRuleOf(new_terms[1].name).source = <<"BAR", "FOO">>
  /\ RenderedRuleOf(new_terms[1].name).destination = <<"any">>

-----------------------------------------------------------------------------
(* The address-family resolver.                                            *)

\* The term reaches the address-family resolver: it is not skipped, its name
\* passes the length and duplicate checks and it is not expired.  (Evaluated
\* in the state before the term.)
ReachesResolver(t) ==
  /\ ~IsSkippedTerm(t)
  /\ Len(t.name) <= TERM_MAX_LENGTH
  /\ t.name \notin term_dup_check
  /\ ~(t.expiration # 0 /\ t.expiration <= current_date)

\* The addresses of the term left after the exclusions.
SourceOf(t) == RemoveAll(t.source_address, t.source_address_exclude)

DestinationOf(t) == RemoveAll(t.destination_address, t.destination_address_exclude)

\* The side admits family v: it is empty (any) or has an address of version v.
SideHas(addresses, v) ==
  addresses = <<>> \/ \E i \in 1..Len(addresses) : NetVersion(addresses[i].ip) = v

\* The flow ipv-ipv, and the flow ipv-only.
DualFlow(t, v) == SideHas(SourceOf(t), v) /\ SideHas(DestinationOf(t), v)

OnlyFlow(t, v) ==
  /\ ~DualFlow(t, v)
  /\ SideHas(SourceOf(t), v) \/ SideHas(DestinationOf(t), v)

\* The objects of an address book, with their zones.
BookObjects(book) ==
  UNION { UNION { { [zone |-> book[z].zone, address |-> book[z].groups[g].entries[k].address] :
                    k \in 1..Len(book[z].groups[g].entries) } :
                  g \in 1..Len(book[z].groups) } :
          z \in 1..Len(book) }

\* The objects of the term of the families fams, with their zones.
TermObjects(t, fams) ==
  { [zone |-> from_zone, address |-> a] :
      a \in {b \in Range(SourceOf(t)) : NetVersion(b.ip) \in fams} }
  \cup
  { [zone |-> to_zone, address |-> a] :
      a \in {b \in Range(DestinationOf(t)) : NetVersion(b.ip) \in fams} }

\* The step registers the objects of the term of the families fams, and
\* nothing else.
RegistersFamilies(t, fams) ==
  BookObjects(addressbook') = BookObjects(addressbook) \cup TermObjects(t, fams)

\* The step drops the term: no error, nothing kept, nothing registered.
DropsTerm ==
  /\ last'.outcome = "dropped"
  /\ error' = NoError
  /\ new_terms' = new_terms
  /\ addressbook' = addressbook

\* The step keeps the term (with the addresses left after the exclusions).
EmitsTerm(t) ==
  /\ last'.outcome = "appended"
  /\ error' = NoError
  /\ Len(new_terms') = Len(new_terms) + 1
  /\ new_terms'[Len(new_terms')].name = t.name
  /\ new_terms'[Len(new_terms')].source_address = SourceOf(t)
  /\ new_terms'[Len(new_terms')].destination_address = DestinationOf(t)

\* The decision of a mixed filter for the term t, by its flows; emitted(t)
\* says what being emitted means.
MixedDecision(t, emitted) ==
  \/ /\ DualFlow(t, 4) /\ DualFlow(t, 6)
     /\ emitted /\ RegistersFamilies(t, {4, 6})
  \/ /\ DualFlow(t, 4) /\ ~DualFlow(t, 6)
     /\ emitted /\ RegistersFamilies(t, {4})
  \/ /\ DualFlow(t, 6) /\ ~DualFlow(t, 4)
     /\ emitted /\ RegistersFamilies(t, {6})
  \/ /\ ~DualFlow(t, 4) /\ ~DualFlow(t, 6)
     /\ OnlyFlow(t, 4) /\ OnlyFlow(t, 6)
     /\ DropsTerm

\* C12 as stated: in a mixed filter every term is decided by its flows alone.
C12_Original ==
  [][ (TermStep /\ filter_type = "mixed")
        => MixedDecision(last'.term, EmitsTerm(last'.term)) ]_vars

\* C12, amended: in a mixed filter, a term that reaches the address-family
\* resolver is decided by its flows alone.  With both ip4-ip4 and ip6-ip6 it
\* is not dropped and the objects of both families are registered; with
\* exactly one of the two dual flows it is not dropped and only the objects
\* of that family are registered; with neither dual flow (then both ip4-only
\* and ip6-only are among the flows) it is dropped: no error, no kept term,
\* nothing registered.  A term that is not dropped is emitted unless one of
\* the later checks raises.
C12_MixedDecision ==
  [][ (TermStep /\ filter_type = "mixed" /\ ReachesResolver(last'.term))
        => MixedDecision(last'.term,
                         last'.outcome # "dropped"
                           /\ (EmitsTerm(last'.term) \/ error' # NoError)) ]_vars

\* A mixed header in which a term with an IPv4 source and an IPv6 destination
\* was dropped and a term with the one dual flow ip6-ip6 was kept.
C12_Witness ==
  /\ filter_type = "mixed"
  /\ pc = "terms"
  /\ Len(header_terms) = 2
  /\ header_terms[1].source_address = <<F4>>
  /\ header_terms[1].destination_address = <<G6>>
  /\ header_terms[1].source_address_exclude = <<>>
  /\ header_terms[2].source_address = <<F6>>
  /\ header_terms[2].destination_address = <<>>
  /\ Len(new_terms) = 1
  /\ new_terms[1].name = header_terms[2].name
  /\ BookObjects(addressbook) = { [zone |-> "trust", address |-> F6] }

\* The decision of a single-family filter of family v, whose other ICMP
\* protocol is other_icmp, for the term t.
SingleFamilyDecision(t, v, other_icmp) ==
  /\ (last'.outcome = "dropped" /\ error' = NoError)
       <=> (Contains(t.protocol, other_icmp) \/ ~DualFlow(t, v))
  /\ last'.outcome = "dropped" => DropsTerm
  /\ last'.outcome # "dropped" => RegistersFamilies(t, {v})

\* C13 as stated: in an inet filter a term is dropped, without error, exactly
\* when its protocols contain icmpv6 or it lacks the flow ip4-ip4, and a term
\* that is not dropped registers no IPv6 object; symmetrically for inet6.
C13_Original ==
  [][ /\ (TermStep /\ filter_type = "inet")
         => SingleFamilyDecision(last'.term, 4, "icmpv6")
      /\ (TermStep /\ filter_type = "inet6")
         => SingleFamilyDecision(last'.term, 6, "icmp") ]_vars

\* C13, amended: in an inet filter (the default when the header names no
\* address family) a term that reaches the address-family resolver is
\* dropped, with no error, nothing kept and nothing registered, exactly when
\* its protocols contain icmpv6 or ip4-ip4 is not among its flows; otherwise
\* the step registers its IPv4 objects and no IPv6 object.  Symmetrically, in
\* an inet6 filter it is dropped exactly when its protocols contain icmp or
\* ip6-ip6 is not among its flows, and otherwise its IPv6 objects and no IPv4
\* object are registered.
C13_SingleFamilyDecision ==
  [][ /\ (TermStep /\ filter_type = "inet" /\ ReachesResolver(last'.term))
         => SingleFamilyDecision(last'.term, 4, "icmpv6")
      /\ (TermStep /\ filter_type = "inet6" /\ ReachesResolver(last'.term))
         => SingleFamilyDecision(last'.term, 6, "icmp") ]_vars

\* A header that names no address family, in which a term with protocol
\* icmpv6 was dropped and a term with the sources F4 and G6 was kept: F4 is
\* registered, G6 is not.
C13_Witness ==
  /\ filter_options = <<"from-zone", "trust", "to-zone", "untrust">>
  /\ filter_type = "inet"
  /\ pc = "terms"
  /\ Len(header_terms) = 2
  /\ header_terms[1].protocol = <<"icmpv6">>
  /\ header_terms[1].option = {}
  /\ header_terms[2].source_address = <<F4, G6>>
  /\ header_terms[2].destination_address = <<>>
  /\ Len(new_terms) = 1
  /\ new_terms[1].name = header_terms[2].name
  /\ BookObjects(addressbook) = { [zone |-> "trust", address |-> F4] }

-----------------------------------------------------------------------------
(* The document.                                                           *)

\* Terms with ICMP types, destination ports, a built-in application and
\* addresses.
TermsDoc ==
  { [DefaultTerm EXCEPT !.name = "d1", !.protocol = <<"tcp">>,
                        !.destination_port = dp, !.source_address = src] :
      dp \in {<<>>, << <<80, 80>> >>}, src \in {<<>>, <<F4>>, <<G4, F4>>} }
  \cup
  { [DefaultTerm EXCEPT !.name = "d2", !.protocol = <<"icmp">>, !.icmp_type = ty] :
      ty \in {<<>>, <<"echo-request">>} }
  \cup
  { [DefaultTerm EXCEPT !.name = "d2", !.protocol = <<"tcp">>,
                        !.pan_application = <<"ssl">>] }

HeadersDoc ==
  { <<"from-zone", "trust", "to-zone", "untrust">>,
    Header("untrust", "trust", "mixed") }

NextDoc == Next(HeadersDoc, TermsDoc, MaxTranslations, OneHeader, MaxTerms)

SpecDoc == Init /\ [][NextDoc]_vars

\* The document of the current state.
TheDocument ==
  Document(applications, application_refs, application_groups, service_map,
           pafw_policies, addressbook)

\* C14: the document has its sections in the order <application>,
\* <application-group>, <service>, <rulebase><security><rules>,
\* <address-group>, <address>; <application> has the custom ICMP entries
\* only, <application-group> is an empty element when there are no groups and
\* <service> is an empty element exactly when the registry is empty.
C14_SectionOrder ==
  pc = "done" =>
    /\ [i \in 1..Len(TheDocument) |-> TheDocument[i].tag]
         = <<"application", "application-group", "service", "rules",
             "address-group", "address">>
    /\ TheDocument[1].entries =
         Cardinality({a \in Range(applications) :
                        \E v \in {"icmp-", "icmp6-"}, ty \in IcmpTypeNamesDrawn :
                          a = v \o ty})
    /\ application_groups = <<>> => TheDocument[2].empty_element
    /\ TheDocument[3].empty_element <=> service_map = <<>>
    /\ ~TheDocument[4].empty_element
    /\ ~TheDocument[5].empty_element
    /\ ~TheDocument[6].empty_element

\* A document with a custom application, a service, two rules, two address
\* groups and two addresses.
C14_Witness ==
  /\ pc = "done"
  /\ TheDocument[1].entries = 1
  /\ TheDocument[2].empty_element
  /\ TheDocument[3].entries = 1
  /\ TheDocument[4].entries = 2
  /\ TheDocument[5].entries = 2
  /\ TheDocument[6].entries = 2

-----------------------------------------------------------------------------
(* The service registry over the translations of a process.                *)

\* Every entry of the registry is kept by the step, at its position.
RegistryKept ==
  /\ Len(service_map) <= Len(service_map')
  /\ \A i \in 1..Len(service_map) : service_map'[i] = service_map[i]

\* The <service> section has the entries of the registry, in their order.
RegistryRendered ==
  /\ Len(RenderServices(service_map)) = Len(service_map)
  /\ TheDocument[3].entries = Len(service_map)
  /\ \A i \in 1..Len(service_map) :
       /\ RenderServices(service_map)[i].name = service_map[i].name
       /\ RenderServices(service_map)[i].protocol = service_map[i].protocol

\* C15: the service registry is never reset between the translations of a
\* process: no step (the start of a new translation included) removes,
\* renames or moves an entry; every name granted to a request of this or an
\* earlier translation is still the name of an entry of its (ports, protocol)
\* pair; and the <service> section of every document has the entries of the
\* registry in registration order, referenced by the policy or not.
C15_RegistryNeverReset ==
  /\ [][RegistryKept]_vars
  /\ [](\A r \in requests :
          r.request.name # ""
            => \E i \in 1..Len(service_map) :
                 /\ SamePair(service_map[i], r.request)
                 /\ service_map[i].name = r.request.name)
  /\ [](pc = "done" => RegistryRendered)

\* The document of a second translation with no rule at all has the service
\* that the first translation registered.
C15_Witness ==
  /\ pc = "done"
  /\ n_translations = 2
  /\ RenderRules(pafw_policies) = <<>>
  /\ Len(pafw_policies) = 1
  /\ Len(service_map) = 1
  /\ RenderServices(service_map)[1] =
       [name |-> "service-t1-tcp", protocol |-> "tcp", port |-> "80"]

-----------------------------------------------------------------------------
(* Registrations of services: Service called with drawn arguments.         *)

MaxServices == 3

\* A name with which "service-" + name + "-tcp" has 63 characters, and one
\* with which it has 64.
Name51 == "n01234567890123456789012345678901234567890123456789"

Name52 == "n01234567890123456789012345678901234567890123456789x"

ServiceNamesDrawn == {"a", Name51, Name52}

PortsDrawn == { <<"80">>, <<"443">>, <<"80", "8000-8080">> }

NextRegistry ==
  \E ports \in PortsDrawn, service_name \in ServiceNamesDrawn,
     protocol \in {"tcp", "udp"} :
    RegisterService(ports, service_name, protocol, MaxServices)

SpecRegistry == Init /\ [][NextRegistry]_vars

\* The request of the registration step taken.
Registration == (CHOOSE r \in requests' : TRUE).request

\* The name synthesized for the request.
Synthesized(request) == "service-" \o request.term \o "-" \o request.protocol

\* The registry has an entry of the name, for another key.
NameTaken(request) ==
  \E i \in 1..Len(service_map) :
    /\ service_map[i].name = Synthesized(request)
    /\ ~SamePair(service_map[i], request)

\* C16: registering a new (ports, protocol) key whose synthesized name is the
\* name of an entry of another key fails with the duplicate-service error; a
\* synthesized name of more than 63 characters fails with the name-too-long
\* error; a failed registration leaves the registry unchanged, and a
\* registration that fails for neither reason adds the key under the
\* synthesized name.  So no two keys of the registry share a name and every
\* name has at most 63 characters.
C16_RegistrationErrors ==
  /\ [][ last'.op = "Service" =>
           \E request \in {Registration} :
             /\ error' # NoError => service_map' = service_map
             /\ (~request.known /\ NameTaken(request))
                  => error'.type = "PaloAltoFWDuplicateServiceError"
             /\ (~request.known /\ ~NameTaken(request)
                   /\ Len(Synthesized(request)) > 63)
                  => error'.type = "PaloAltoFWNameTooLongError"
             /\ (~request.known /\ ~NameTaken(request)
                   /\ Len(Synthesized(request)) <= 63)
                  => /\ error' = NoError
                     /\ service_map' =
                          Append(service_map,
                                 [ports |-> request.ports, protocol |-> request.protocol,
                                  name |-> Synthesized(request)]) ]_vars
  /\ [](\A i, j \in 1..Len(service_map) :
          /\ service_map[i].name = service_map[j].name => i = j
          /\ Len(service_map[i].name) <= 63)

\* The registry holds a name of 63 characters, and the last registration
\* failed on a name of 64.
C16_WitnessTooLong ==
  /\ last.op = "Service"
  /\ error.type = "PaloAltoFWNameTooLongError"
  /\ \E i \in 1..Len(service_map) : Len(service_map[i].name) = 63
  /\ \E r \in requests : r.request.term = Name52 /\ r.request.name = ""

\* The last registration failed because service-a-tcp is the name of port 80
\* and was asked for port 443.
C16_Witness ==
  /\ last.op = "Service"
  /\ error.type = "PaloAltoFWDuplicateServiceError"
  /\ service_map = << [ports |-> <<"80">>, protocol |-> "tcp", name |-> "service-a-tcp"] >>
  /\ \E r \in requests :
       /\ r.request.term = "a" /\ r.request.ports = <<"443">>
       /\ r.request.protocol = "tcp" /\ ~r.request.known /\ r.request.name = ""

-----------------------------------------------------------------------------
(* The members of the rules and the address groups of the document.        *)

\* The address-group entries of the document that have the name.
AddressGroupsNamed(name) ==
  {i \in 1..Len(RenderAddressGroups(addressbook)) :
     RenderAddressGroups(addressbook)[i].name = name}

\* C17: every source or destination member of a rule of the document, other
\* than "any", is the name of an <address-group> entry of the same document
\* that has at least one member.
C17_MembersAreDefinedGroups ==
  pc = "done" =>
    \A i \in 1..Len(RenderRules(pafw_policies)) :
      \A member \in (Range(RenderRules(pafw_policies)[i].source)
                       \cup Range(RenderRules(pafw_policies)[i].destination))
                      \ {"any"} :
        \E g \in AddressGroupsNamed(member) :
          Len(RenderAddressGroups(addressbook)[g].members) >= 1

\* An inet document with one rule whose sources are BAR and FOO, and with the
\* address group FOO only: the one address of BAR is an IPv6 address.
C17_Witness ==
  /\ pc = "done"
  /\ filter_type = "inet"
  /\ Len(RenderRules(pafw_policies)) = 1
  /\ RenderRules(pafw_policies)[1].source = <<"BAR", "FOO">>
  /\ RenderRules(pafw_policies)[1].destination = <<"any">>
  /\ RenderAddressGroups(addressbook) = << [name |-> "FOO", members |-> <<"FOO_0">>] >>

\* The terms given in the header that the pass did not skip.  Their names are
\* distinct when the header is built, so the rule of such a term, if any, is
\* the rule of its name.
TermsGiven == {k \in 1..Len(header_terms) : ~IsSkippedTerm(header_terms[k])}

IsEmitted(t) == \E i \in 1..Len(new_terms) : new_terms[i].name = t.name

\* C18: a term that names at least one source address is never emitted as a
\* rule whose source is "any", and a term that names at least one
\* destination address is never emitted as a rule whose destination is "any".
C18_NotWidenedToAny ==
  HeaderBuilt =>
    \A k \in TermsGiven :
      IsEmitted(header_terms[k]) =>
        /\ header_terms[k].source_address # <<>>
             => RenderedRuleOf(header_terms[k].name).source # <<"any">>
        /\ header_terms[k].destination_address # <<>>
             => RenderedRuleOf(header_terms[k].name).destination # <<"any">>

\* The one term of the header has the source 10.0.0.0/8 and excludes
\* 10.0.0.0/8 from its sources; its rule has the source any.
C18_Witness ==
  /\ HeaderBuilt
  /\ Len(header_terms) = 1
  /\ header_terms[1].source_address = <<F4>>
  /\ header_terms[1].source_address_exclude = <<F4>>
  /\ header_terms[1].destination_address = <<G4>>
  /\ Len(new_terms) = 1
  /\ RenderedRuleOf(header_terms[1].name).source = <<"any">>
  /\ RenderedRuleOf(header_terms[1].name).destination = <<"BAR">>

-----------------------------------------------------------------------------
(* The order of the rules.                                                 *)

\* The names of the <entry> elements of the rules section, in order.
EntryNames(policies) ==
  [i \in 1..Len(RenderRules(policies)) |-> RenderRules(policies)[i].name]

\* C19: the rules section has exactly one <entry> per surviving term, in the
\* order of the terms within a header and of the headers within the policy.
\* A term that survives is added after the kept terms of its header and a
\* term that does not is not added; a header that is built adds one entry per
\* kept term, in their order, after the entries of the headers before it,
\* which it leaves as they are; no other step changes the entries, and a new
\* translation starts without entries.
C19_OneEntryPerSurvivingTerm ==
  [][ /\ TermStep =>
           /\ TermNames(new_terms') =
                IF last'.outcome = "appended"
                THEN Append(TermNames(new_terms), last'.term.name)
                ELSE TermNames(new_terms)
           /\ \A i \in 1..Len(new_terms) : new_terms'[i] = new_terms[i]
           /\ RenderRules(pafw_policies') = RenderRules(pafw_policies)
      /\ (pc = "terms" /\ last'.op = "EndHeader" /\ error' = NoError) =>
           /\ EntryNames(pafw_policies') = EntryNames(pafw_policies) \o TermNames(new_terms)
           /\ \A i \in 1..Len(RenderRules(pafw_policies)) :
                RenderRules(pafw_policies')[i] = RenderRules(pafw_policies)[i]
      /\ (pc = "terms" /\ last'.op = "EndHeader" /\ error' # NoError) =>
           RenderRules(pafw_policies') = RenderRules(pafw_policies)
      /\ last'.op \in {"BeginHeader", "Finish"} =>
           RenderRules(pafw_policies') = RenderRules(pafw_policies)
      /\ last'.op = "NewTranslation" => RenderRules(pafw_policies') = <<>> ]_vars

\* A document of two headers: the first kept t2 and then t1, the second
\* consumed a term that was dropped and then kept t1.
C19_Witness ==
  /\ pc = "done"
  /\ Len(pafw_policies) = 2
  /\ EntryNames(pafw_policies) = <<"t2", "t1", "t1">>
  /\ Len(header_terms) = 2
  /\ TermNames(new_terms) = <<"t1">>

-----------------------------------------------------------------------------
(* One generated name in two zones.                                        *)

\* The pairs <<a, b>> of different objects for which an earlier and a later
\* zone of the address book generate the name.
Collisions(name) ==
  { <<addressbook[z1].groups[g1].entries[k1].address,
      addressbook[z2].groups[g2].entries[k2].address>> :
      <<z1, g1, k1, z2, g2, k2>> \in
        { q \in (1..Len(addressbook)) \X (1..2) \X (1..3)
                  \X (1..Len(addressbook)) \X (1..2) \X (1..3) :
            /\ q[1] < q[4]
            /\ q[2] <= Len(addressbook[q[1]].groups)
            /\ q[5] <= Len(addressbook[q[4]].groups)
            /\ q[3] <= Len(addressbook[q[1]].groups[q[2]].entries)
            /\ q[6] <= Len(addressbook[q[4]].groups[q[5]].entries)
            /\ addressbook[q[1]].groups[q[2]].entries[q[3]].name = name
            /\ addressbook[q[4]].groups[q[5]].entries[q[6]].name = name
            /\ addressbook[q[1]].groups[q[2]].entries[q[3]].address.ip
                 # addressbook[q[4]].groups[q[5]].entries[q[6]].address.ip } }

\* The names that the address book generates.
GeneratedNames ==
  UNION { {b.entries[k].name : k \in 1..Len(b.entries)} : b \in Buckets }

\* C20: when two zones generate one name for different objects, the <address>
\* entry of the name has the object of the later zone if that is a supernet
\* of the object of the earlier zone, and the object of the earlier zone
\* otherwise.
C20_LaterWinsOnlyIfSupernet ==
  pc = "done" =>
    \A name \in GeneratedNames : \A c \in Collisions(name) :
      \A x \in RenderAddresses(addressbook) :
        x.name = name =>
          x.ip_netmask = IF StrictSupernet(c[2], c[1]) THEN c[2].ip ELSE c[1].ip

\* FOO_0 is 10.0.0.0/8 in the zone trust and 11.0.0.0/24 in the zone untrust;
\* the <address> entry FOO_0 is 11.0.0.0/24.
C20_Witness ==
  /\ pc = "done"
  /\ Len(addressbook) = 2
  /\ addressbook[1].zone = "trust" /\ addressbook[2].zone = "untrust"
  /\ <<A4, C4>> \in Collisions("FOO_0")
  /\ [name |-> "FOO_0", ip_netmask |-> "11.0.0.0/24"] \in RenderAddresses(addressbook)
  /\ \A x \in RenderAddresses(addressbook) : x.ip_netmask # "10.0.0.0/8"

-----------------------------------------------------------------------------
(* The ICMP version of the applications of a term.                         *)

\* The applications of IP version v: the generic token and the custom names.
IcmpApplicationNames(v) ==
  IF v = 4 THEN {"icmp"} \cup {"icmp-" \o ty : ty \in IcmpTypeNamesDrawn}
  ELSE {"ipv6-icmp"} \cup {"icmp6-" \o ty : ty \in IcmpTypeNamesDrawn}

\* The protocols of the term have icmp and not icmpv6 (v = 4), or icmpv6 and
\* not icmp (v = 6).
OnlyIcmpOfVersion(t, v) ==
  IF v = 4
  THEN (\E i \in 1..Len(t.protocol) : t.protocol[i] = "icmp")
         /\ (\A i \in 1..Len(t.protocol) : t.protocol[i] # "icmpv6")
  ELSE (\E i \in 1..Len(t.protocol) : t.protocol[i] = "icmpv6")
         /\ (\A i \in 1..Len(t.protocol) : t.protocol[i] # "icmp")

\* C21: a term whose protocols have icmp and not icmpv6 gets IPv4 ICMP
\* applications only (icmp or icmp-<type>, never ipv6-icmp or icmp6-<type>)
\* in every filter mode, and its type names are validated against the IPv4
\* table only: when all of them are in that table, the term raises no
\* bad-ICMP-type error.  Symmetrically for icmpv6 without icmp.
C21_IcmpVersionOfProtocol ==
  /\ [](HeaderBuilt =>
          \A i \in 1..Len(new_terms) : \A v \in {4, 6} :
            OnlyIcmpOfVersion(new_terms[i], v)
              => Range(RenderedRuleOf(new_terms[i].name).application)
                   \cap IcmpApplicationNames(10 - v) = {})
  /\ [][ \A v \in {4, 6} :
           (TermStep /\ OnlyIcmpOfVersion(last'.term, v)
              /\ \A k \in 1..Len(last'.term.icmp_type) :
                   last'.term.icmp_type[k] \in IcmpTypeNames(v))
             => error'.type # "PaloAltoFWBadIcmpTypeError" ]_vars

\* A mixed header with the one term of protocol icmp, no ICMP type and no
\* addresses: its rule has the applications icmp and ipv6-icmp.
C21_Witness ==
  /\ HeaderBuilt
  /\ filter_type = "mixed"
  /\ Len(new_terms) = 1
  /\ new_terms[1].protocol = <<"icmp">>
  /\ header_terms[1].icmp_type = <<>>
  /\ RenderedRuleOf(new_terms[1].name).application = <<"icmp", "ipv6-icmp">>

\* A mixed header whose one term of protocol icmpv6 names the IPv6 type
\* neighbor-solicit: the translation aborts with the bad-ICMP-type error.
C21_WitnessValidation ==
  /\ pc = "error"
  /\ filter_type = "mixed"
  /\ Len(header_terms) = 1
  /\ header_terms[1].protocol = <<"icmpv6">>
  /\ header_terms[1].icmp_type = <<"neighbor-solicit">>
  /\ error = Raise("PaloAltoFWBadIcmpTypeError", header_terms[1].name, "neighbor-solicit")

-----------------------------------------------------------------------------
(* The service registry after a translation that aborts.                   *)

\* The requests of the current translation that registered a new service.
RegisteredByTranslation ==
  {r \in requests :
     r.translation = n_translations /\ ~r.request.known /\ r.request.name # ""}

\* C22: when a translation aborts with a fatal error, the service registry is
\* as it was before the translation started: it has no entry that the
\* aborted translation registered.
C22_AbortLeavesRegistry ==
  pc = "error" =>
    \A r \in RegisteredByTranslation :
      ~\E i \in 1..Len(service_map) : SamePair(service_map[i], r.request)

\* The first translation of the process aborted in its second header with
\* the duplicate-service error; the registry has the service of the first
\* header.
C22_Witness ==
  /\ pc = "error"
  /\ n_translations = 1
  /\ Len(pafw_policies) = 1
  /\ error.type = "PaloAltoFWDuplicateServiceError"
  /\ service_map = << [ports |-> <<"80">>, protocol |-> "tcp", name |-> "service-t1-tcp"] >>
  /\ RenderServices(service_map) =
       << [name |-> "service-t1-tcp", protocol |-> "tcp", port |-> "80"] >>

-----------------------------------------------------------------------------
(* The <address> entries and the members of the address groups.            *)

\* The parent tokens of the address book.
BookTokens == {b.token : b \in Buckets}

\* The members of the <address-group> entries named token.
GroupMembers(token) ==
  UNION { Range(RenderAddressGroups(addressbook)[i].members) :
          i \in AddressGroupsNamed(token) }

\* C23: every <address> entry name is a member of the <address-group> entry
\* of its parent token, and every member of an <address-group> entry has an
\* <address> entry.
C23_AddressesAndGroupMembers ==
  pc = "done" =>
    /\ \A x \in RenderAddresses(addressbook) :
         \A token \in BookTokens :
           x.name \in NamesOfToken(token) => x.name \in GroupMembers(token)
    /\ \A i \in 1..Len(RenderAddressGroups(addressbook)) :
         \A member \in Range(RenderAddressGroups(addressbook)[i].members) :
           \E x \in RenderAddresses(addressbook) : x.name = member

\* The token FOO has two objects in the zone trust and one in the zone
\* untrust: the document has the <address> entries FOO_0 and FOO_1, and the
\* <address-group> FOO has the member FOO_0 only.
C23_Witness ==
  /\ pc = "done"
  /\ Len(addressbook) = 2
  /\ addressbook[1].zone = "trust" /\ addressbook[2].zone = "untrust"
  /\ {x.name : x \in RenderAddresses(addressbook)} = {"FOO_0", "FOO_1"}
  /\ RenderAddressGroups(addressbook) = << [name |-> "FOO", members |-> <<"FOO_0">>] >>

-----------------------------------------------------------------------------
(* Dropped terms.                                                          *)

\* The filter type does not admit the term.
FamilyMismatch(t) ==
  \/ /\ filter_type = "inet"
     /\ (\E i \in 1..Len(t.protocol) : t.protocol[i] = "icmpv6") \/ ~DualFlow(t, 4)
  \/ /\ filter_type = "inet6"
     /\ (\E i \in 1..Len(t.protocol) : t.protocol[i] = "icmp") \/ ~DualFlow(t, 6)
  \/ /\ filter_type = "mixed"
     /\ ~DualFlow(t, 4) /\ ~DualFlow(t, 6)

\* The term is one that the pass drops: it is skipped, or its name passes the
\* length and duplicate checks and it is expired or the filter type does not
\* admit it.  (Evaluated in the state before the term.)
IsDroppedTerm(t) ==
  \/ IsSkippedTerm(t)
  \/ /\ Len(t.name) <= TERM_MAX_LENGTH
     /\ t.name \notin term_dup_check
     /\ \/ t.expiration # 0 /\ t.expiration <= current_date
        \/ FamilyMismatch(t)

\* C24: a term that is dropped (stateless-reply, established or
\* tcp-established, expired, or not admitted by the filter type) raises no
\* error and leaves the address book, the applications, the service registry,
\* the kept terms and the rules of the headers as they were; and every step
\* that drops a term is of such a term.
C24_DroppedTermsChangeNothing ==
  [][ /\ (TermStep /\ IsDroppedTerm(last'.term))
           => /\ last'.outcome = "dropped"
              /\ pc' = "terms"
              /\ error' = NoError
              /\ UNCHANGED <<addressbook, applications, application_refs,
                             service_map, new_terms, pafw_policies>>
      /\ (TermStep /\ last'.outcome = "dropped") => IsDroppedTerm(last'.term) ]_vars

\* An inet header kept a term with the source F4 and then dropped a term that
\* expires today: the address book still holds F4 only, one term is kept.
C24_Witness ==
  /\ pc = "terms"
  /\ filter_type = "inet"
  /\ Len(header_terms) = 2
  /\ header_terms[2].expiration = current_date
  /\ header_terms[2].source_address = <<F4>>
  /\ last.op = "ProcessTerm" /\ last.outcome = "dropped"
  /\ Len(new_terms) = 1
  /\ new_terms[1].name = header_terms[1].name
  /\ BookObjects(addressbook) = { [zone |-> "trust", address |-> F4] }
  /\ header_terms[2].name \in term_dup_check

-----------------------------------------------------------------------------
(* The flows of a term.                                                    *)

\* The flows computed for the term of the last step, from the addresses left
\* after the exclusions.
LastFlows == Flows(SourceOf(last.term), DestinationOf(last.term))

\* Lines 510-527: in a mixed filter none of the four tests before the final
\* else holds for the flows.
FinalBranchTaken(flows) ==
  /\ ~("ip4-ip4" \in flows /\ "ip6-ip6" \notin flows)
  /\ ~("ip6-ip6" \in flows /\ "ip4-ip4" \notin flows)
  /\ ~("ip4-ip4" \in flows /\ "ip6-ip6" \in flows)
  /\ ~("ip4-only" \in flows /\ "ip6-only" \in flows)

\* C25: for every term the flows computed from its source and destination
\* addresses (empty or not, after the exclusions) are non-empty and contain
\* ip4-ip4, or ip6-ip6, or both ip4-only and ip6-only; so the final branch of
\* the mixed filter is never taken.
C25_FlowsAreDecidable ==
  last.op = "ProcessTerm" =>
    /\ LastFlows # {}
    /\ \/ "ip4-ip4" \in LastFlows
       \/ "ip6-ip6" \in LastFlows
       \/ {"ip4-only", "ip6-only"} \subseteq LastFlows
    /\ ~FinalBranchTaken(LastFlows)

\* A mixed header dropped a term with an IPv4 source and an IPv6 destination:
\* its flows are the four single-family flows.
C25_Witness ==
  /\ last.op = "ProcessTerm"
  /\ filter_type = "mixed"
  /\ last.outcome = "dropped"
  /\ SourceOf(last.term) = <<F4>>
  /\ DestinationOf(last.term) = <<G6>>
  /\ LastFlows = {"ip4-src-only", "ip4-only", "ip6-dst-only", "ip6-only"}

====
